---- MODULE Spec2Model ----
(***************************************************************************)
(* Neura-AI v1000 "Hardcode" (src/main.py): the conversation store kept in *)
(* memory.json, the usage log in usage.json, the sliding-window rate       *)
(* limiter and the background worker queue, modelled as state machines.    *)
(*                                                                         *)
(*   SpecSeq    one caller running the BotEngine memory methods to         *)
(*              completion, one after the other                            *)
(*   SpecMem    several threads running append_message/clear_conversation, *)
(*              interleaved at the boundaries of read_memory/write_memory  *)
(*   SpecRate   several threads running is_rate_limited against a clock    *)
(*   SpecQueue  producers calling schedule_task and the single worker      *)
(*   SpecQueueLive  the same without the stop flag, under fairness         *)
(*   SpecAsk    two request threads running the /ask handler (ask and      *)
(*              BotEngine.generate)                                        *)
(*   SpecAskWorker  one request thread running it beside the worker        *)
(*   SpecAskDefault  SpecAsk with the max_history of the shared BOT        *)
(*   SpecRepo   one caller running the memory methods, with the failures   *)
(*              of the file accesses                                       *)
(*   SpecUsage  several threads running append_usage                       *)
(*   SpecLocks  the /ask handler and the worker at the steps of the locks  *)
(*   SpecPayload  one request thread serving /ask and /tools/summarize,    *)
(*              with the modes of the requests kept                        *)
(*   SpecAdmit  one request thread serving /ask from an empty rate store   *)
(*              while time passes                                          *)
(*   SpecBeast  two threads running the generate of src/bot_engine.py      *)
(***************************************************************************)
EXTENDS Integers, Sequences, FiniteSets, TLC

VARIABLES
    clock,          \* time.time(), in whole seconds
    max_history,    \* BotEngine.max_history
    memory,         \* memory.json: the "conversations" dict, key -> list of messages
    issued,         \* number of append/clear calls started (gives each message its content)
    done,           \* history: per key, the messages whose append returned since the last clear returned
    mpc,            \* per thread: position inside append_message / clear_conversation
    mop,            \* per thread: the call it is running
    mdata,          \* per thread: the local `data` returned by self._load()
    rate_store,     \* _rate_store: ip -> list of timestamps
    rpc,            \* per thread: position inside is_rate_limited
    rip,            \* per thread: the ip argument
    rnow,           \* per thread: the local `now`
    rres,           \* per thread: what its last is_rate_limited call returned
    rcalls,         \* number of is_rate_limited calls started
    rlog,           \* history: per ip, the (now, result) of its calls in _rate_lock order
    WORKER_QUEUE,   \* queue.Queue of task_wrapper closures
    WORKER_RUNNING, \* the stop flag
    wpc,            \* position of worker_thread
    wtask,          \* the task worker_thread took from the queue
    wwake,          \* the time at which its time.sleep(delay) ends
    sched,          \* history: the tasks in the order schedule_task put them
    started,        \* history: ids of the tasks in the order the worker called them
    finished,       \* history: (id, ok) of the tasks in the order their call ended
    stopped,        \* history: what the worker was doing when the stop flag was set
    usage,          \* usage.json: the "calls" list
    backend_ready,  \* the openai SDK is installed and an API key is set
    set_persona,    \* BOT.set_persona
    apc,            \* per thread: position inside ask / BotEngine.generate
    areq,           \* per thread: the request it is serving, or served last
    amsgs,          \* per thread: the local `messages` of generate
    acontent,       \* per thread: the local `content` of generate
    asked,          \* number of requests that have arrived (gives each its texts)
    aresult,        \* per thread: the response ask returned last
    acall,          \* history: per thread, the conversation as it was when the
                    \* request arrived, and whether the request has had that
                    \* conversation to itself
    memory_valid,   \* memory.json holds a JSON document
    last,           \* history: the last memory method the single caller ran
    memory_lock,    \* _memory_lock: the thread that holds it
    usage_lock,     \* _usage_lock: the thread that holds it
    rate_lock,      \* _rate_lock: the thread that holds it
    upc,            \* per thread: position inside append_usage
    uarg,           \* per thread: the entry argument of append_usage
    udata,          \* per thread: the local `u` of append_usage
    urec,           \* history: the append_usage calls in the order they returned
    safe_mode,      \* FEATURE_FLAGS["safe_mode"]
    gen_lock        \* per thread: the holder of the local _lock of its call of
                    \* the generate of bot_engine.py

memVars == <<max_history, memory, issued, done, mpc, mop, mdata>>

rateVars == <<rate_store, rpc, rip, rnow, rres, rcalls, rlog>>

queueVars == <<WORKER_QUEUE, WORKER_RUNNING, wpc, wtask, wwake, sched,
               started, finished, stopped>>

askVars == <<backend_ready, set_persona, apc, areq, amsgs, acontent, asked,
             aresult, acall>>

repoVars == <<memory_valid, last>>

lockVars == <<memory_lock, usage_lock, rate_lock>>

ucallVars == <<upc, uarg, udata, urec>>

engineVars == <<safe_mode, gen_lock>>

vars == <<clock, memVars, rateVars, queueVars, usage, askVars, repoVars,
          lockVars, ucallVars, engineVars>>

----------------------------------------------------------------------------
(* Bounds *)

MaxHistoryBound == 2    \* max_history is drawn from 0..MaxHistoryBound
MaxMsgs == 4            \* append/clear calls per behaviour of one caller
MaxMemMsgs == 2         \* append/clear calls per behaviour of concurrent callers
MaxMemClock == 1        \* ticks of the clock while the memory methods run
NumThreads == 2         \* concurrent callers (request threads)
MaxRateCalls == 5       \* is_rate_limited calls per behaviour
ClockStep == 5          \* seconds between two observations of the clock by the rate limiter
MaxRateClock == 15      \* last value of the clock while the rate limiter runs
MaxTasks == 3           \* schedule_task calls per behaviour
MaxQueueClock == 1      \* ticks of the clock while the worker runs
MaxAsks == 2            \* /ask requests per behaviour
MaxRepoCalls == 3       \* memory method calls per behaviour of the single caller
MaxPayloadAsks == 3
MaxBeastCalls == 2
MaxAdmitAsks == 4
MaxUsageCalls == 3      \* append_usage calls per behaviour

Keys == {"c1", "c2"}
Clients == {"A", "B"}
Roles == {"system", "user", "assistant"}
Threads == 1..NumThreads
MaxHistoryValues == 0..MaxHistoryBound
DefaultMaxHistory == 30     \* BotEngine(max_history=30), the shared BOT instance

NoOp == [kind |-> "none"]
NoTask == [id |-> 0]
NotStopped == [pc |-> "none", begun |-> 0]

\* texts are tokens: 0 is the empty string, request i sends the text
\* 2i - 1 and the backend answers it with the text 2i
EmptyText == 0
UserText(i) == 2 * i - 1
ReplyText(i) == 2 * i
Texts == {0, 1}       \* what a client may send: nothing, or something
Modes == {"default", "business", "creative", "debug"}
QuietModes == {"default", "debug"}
Handlers == {1, 2}    \* the request threads that serve /ask at the same time
NoConvo == "none"       \* convo_id=None
NoReq == [id |-> 0, ip |-> "none", convo |-> NoConvo, command |-> EmptyText,
          mode |-> "none"]
NoResult == [id |-> 0, status |-> 0, error |-> "", answer |-> EmptyText]
NoCall == [prior |-> << >>, alone |-> TRUE]
Delays == {-1, 0, 1}        \* schedule_task(func, delay): invalid, none, some

----------------------------------------------------------------------------
(* Helpers *)

Min(a, b) == IF a < b THEN a ELSE b
Max(a, b) == IF a > b THEN a ELSE b

\* The last n elements of s (n <= Len(s)).
LastN(s, n) == SubSeq(s, Len(s) - n + 1, Len(s))

\* Python s[i:] for any integer i: a negative i counts from the end, and
\* -0 is 0, the start of the list.
SliceFrom(s, i) ==
    LET start == IF i < 0 THEN Max(Len(s) + i, 0) ELSE Min(i, Len(s))
    IN  SubSeq(s, start + 1, Len(s))

\* dict.get(key, []) on the conversations dict.
DictGet(d, k) == IF k \in DOMAIN d THEN d[k] ELSE << >>

\* d[k] = v on a dict: the key is created when absent.
DictSet(d, k, v) == [x \in (DOMAIN d) \cup {k} |-> IF x = k THEN v ELSE d[x]]

EmptyDict == [x \in {} |-> << >>]

----------------------------------------------------------------------------
(* Simple File Memory & Persistence, BotEngine memory methods *)

\* read_memory: the whole file, read under _memory_lock.
read_memory == memory

\* the "# cap conversation" step of append_message
CapConversation(conv, mh) ==
    IF Len(conv) > mh THEN SliceFrom(conv, 0 - mh) ELSE conv

\* an append_message that puts the new message in front
AppendMutate_Prepends(data, convo_id, role, content, now, mh) ==
    LET conv == <<[role |-> role, content |-> content, ts |-> now]>>
                    \o DictGet(data, convo_id)
    IN  DictSet(data, convo_id, CapConversation(conv, mh))

\* append_message between self._load() and self._save(data): the mutation of
\* the local data.
AppendMutate(data, convo_id, role, content, now, mh) ==
    LET conv == Append(DictGet(data, convo_id),
                       [role |-> role, content |-> content, ts |-> now])
    IN  DictSet(data, convo_id, CapConversation(conv, mh))

\* a clear that forgets the key
ClearMutate_Deletes(data, convo_id) ==
    [x \in (DOMAIN data) \ {convo_id} |-> data[x]]

\* clear_conversation between self._load() and self._save(data).
ClearMutate(data, convo_id) == DictSet(data, convo_id, << >>)

get_conversation(convo_id) == DictGet(read_memory, convo_id)

list_conversations == DOMAIN read_memory

MutateOf(op, data, now, mh) ==
    IF op.kind = "append"
    THEN AppendMutate(data, op.key, op.role, op.content, now, mh)
    ELSE ClearMutate(data, op.key)

\* history of returned mutations of one key
DoneAfter(op, data) ==
    IF op.kind = "append"
    THEN [done EXCEPT ![op.key] = Append(@, data[op.key][Len(data[op.key])])]
    ELSE [done EXCEPT ![op.key] = << >>]

----------------------------------------------------------------------------
(* The clock *)

Tick(step, max) ==
    /\ clock + step <= max
    /\ clock' = clock + step

----------------------------------------------------------------------------
(* SpecSeq: one caller, each method runs to completion *)

MemStart ==
    /\ memory = EmptyDict
    /\ issued = 0
    /\ done = [k \in Keys |-> << >>]
    /\ mpc = [t \in Threads |-> "idle"]
    /\ mop = [t \in Threads |-> NoOp]
    /\ mdata = [t \in Threads |-> EmptyDict]

RateStart ==
    /\ rate_store = EmptyDict
    /\ rpc = [t \in Threads |-> "idle"]
    /\ rip = [t \in Threads |-> "none"]
    /\ rnow = [t \in Threads |-> 0]
    /\ rres = [t \in Threads |-> FALSE]
    /\ rcalls = 0
    /\ rlog = [c \in Clients |-> << >>]

QueueStart ==
    /\ WORKER_QUEUE = << >>
    /\ WORKER_RUNNING = TRUE
    /\ wpc = "loop"
    /\ wtask = NoTask
    /\ wwake = 0
    /\ sched = << >>
    /\ started = << >>
    /\ finished = << >>
    /\ stopped = NotStopped

AskIdle ==
    /\ usage = << >>
    /\ set_persona = "none"
    /\ apc = [t \in Threads |-> "idle"]
    /\ areq = [t \in Threads |-> NoReq]
    /\ amsgs = [t \in Threads |-> << >>]
    /\ acontent = [t \in Threads |-> EmptyText]
    /\ asked = 0
    /\ aresult = [t \in Threads |-> NoResult]
    /\ acall = [t \in Threads |-> NoCall]

AskStart == AskIdle /\ backend_ready = TRUE

Free == 0       \* the holder of a lock that nobody holds
NoEntry == [req |-> 0, contended |-> FALSE]
NoData == [calls |-> << >>, reset |-> FALSE]
NoCallYet == [op |-> "none", key |-> "none", had |-> 0, out |-> "none"]

NoLock == 0 - 1     \* _lock is not bound: no call of generate in progress

\* the files as _ensure_memory and _ensure_usage leave them, the three locks
\* as threading.Lock() creates them, and no call in progress
FilesStart ==
    /\ memory_valid = TRUE
    /\ last = [op |-> "none", key |-> "none", raised |-> FALSE,
               got |-> << >>, keys |-> {}, before |-> EmptyDict,
               before_valid |-> TRUE, had |-> 0, prev |-> NoCallYet]
    /\ memory_lock = Free
    /\ usage_lock = Free
    /\ rate_lock = Free
    /\ upc = [t \in Threads |-> "idle"]
    /\ uarg = [t \in Threads |-> NoEntry]
    /\ udata = [t \in Threads |-> NoData]
    /\ urec = << >>
    /\ gen_lock = [t \in Threads |-> NoLock]

\* the same with NEURA_SAFE_MODE left at its default
StoreStart ==
    /\ FilesStart
    /\ safe_mode = TRUE

InitMem ==
    /\ clock = 0
    /\ StoreStart
    /\ max_history \in MaxHistoryValues
    /\ MemStart
    /\ RateStart
    /\ QueueStart
    /\ AskStart

\* BotEngine.append_message, whole call
append_message(convo_id, role) ==
    /\ issued < MaxMsgs
    /\ issued' = issued + 1
    /\ LET op   == [kind |-> "append", key |-> convo_id, role |-> role,
                    content |-> issued + 1]
           data == MutateOf(op, read_memory, clock, max_history)
       IN  /\ memory' = data
           /\ done' = DoneAfter(op, data)
    /\ UNCHANGED <<clock, max_history, mpc, mop, mdata, rateVars, queueVars,
                   usage, askVars,
                   repoVars, lockVars, ucallVars, engineVars>>

\* BotEngine.clear_conversation, whole call
clear_conversation(convo_id) ==
    /\ issued < MaxMsgs
    /\ issued' = issued + 1
    /\ LET op   == [kind |-> "clear", key |-> convo_id]
           data == MutateOf(op, read_memory, clock, max_history)
       IN  /\ memory' = data
           /\ done' = DoneAfter(op, data)
    /\ UNCHANGED <<clock, max_history, mpc, mop, mdata, rateVars, queueVars,
                   usage, askVars,
                   repoVars, lockVars, ucallVars, engineVars>>

TickSeq == Tick(1, MaxMemClock) /\ UNCHANGED <<memVars, rateVars, queueVars,
                   usage, askVars,
                   repoVars, lockVars, ucallVars, engineVars>>

NextSeq ==
    \/ \E k \in Keys, r \in Roles : append_message(k, r)
    \/ \E k \in Keys : clear_conversation(k)
    \/ TickSeq

SpecSeq == InitMem /\ [][NextSeq]_vars

----------------------------------------------------------------------------
(* SpecMem: concurrent callers.  read_memory and write_memory each take    *)
(* _memory_lock for the duration of the file access only, so a call is two *)
(* steps: the load (followed by the mutation of the thread's own copy,     *)
(* which no other thread can see) and the save.                            *)

\* append_message up to self._save(data)
AppendLoad(t, convo_id, role) ==
    /\ mpc[t] = "idle"
    /\ issued < MaxMemMsgs
    /\ issued' = issued + 1
    /\ LET op == [kind |-> "append", key |-> convo_id, role |-> role,
                  content |-> issued + 1]
       IN  /\ mop' = [mop EXCEPT ![t] = op]
           /\ mdata' = [mdata EXCEPT ![t] =
                            MutateOf(op, read_memory, clock, max_history)]
    /\ mpc' = [mpc EXCEPT ![t] = "save"]
    /\ UNCHANGED <<clock, max_history, memory, done, rateVars, queueVars,
                   usage, askVars,
                   repoVars, lockVars, ucallVars, engineVars>>

\* clear_conversation up to self._save(data)
ClearLoad(t, convo_id) ==
    /\ mpc[t] = "idle"
    /\ issued < MaxMemMsgs
    /\ issued' = issued + 1
    /\ LET op == [kind |-> "clear", key |-> convo_id]
       IN  /\ mop' = [mop EXCEPT ![t] = op]
           /\ mdata' = [mdata EXCEPT ![t] =
                            MutateOf(op, read_memory, clock, max_history)]
    /\ mpc' = [mpc EXCEPT ![t] = "save"]
    /\ UNCHANGED <<clock, max_history, memory, done, rateVars, queueVars,
                   usage, askVars,
                   repoVars, lockVars, ucallVars, engineVars>>

\* self._save(data): write_memory replaces the whole file; the call returns
Save(t) ==
    /\ mpc[t] = "save"
    /\ memory' = mdata[t]
    /\ done' = DoneAfter(mop[t], mdata[t])
    /\ mpc' = [mpc EXCEPT ![t] = "idle"]
    /\ mop' = [mop EXCEPT ![t] = NoOp]
    /\ mdata' = [mdata EXCEPT ![t] = EmptyDict]
    /\ UNCHANGED <<clock, max_history, issued, rateVars, queueVars,
                   usage, askVars,
                   repoVars, lockVars, ucallVars, engineVars>>

TickMem == Tick(1, MaxMemClock) /\ UNCHANGED <<memVars, rateVars, queueVars,
                   usage, askVars,
                   repoVars, lockVars, ucallVars, engineVars>>

NextMem ==
    \/ \E t \in Threads, k \in Keys, r \in Roles : AppendLoad(t, k, r)
    \/ \E t \in Threads, k \in Keys : ClearLoad(t, k)
    \/ \E t \in Threads : Save(t)
    \/ TickMem

SpecMem == InitMem /\ [][NextMem]_vars

----------------------------------------------------------------------------
(* SpecRepo: one caller running the memory methods of BotEngine to          *)
(* completion, with the failures of the file accesses.  read_memory raises  *)
(* when the file cannot be opened or does not parse; write_memory raises    *)
(* either in open(), which leaves the file as it was, or in json.dump,      *)
(* after open(MEMORY_PATH, "w") has truncated the file.                     *)

SaveOutcomes == {"ok", "open_fails", "dump_fails"}

\* read_memory raises: the open fails (lf), or json.load meets a file that
\* is not a JSON document
LoadRaises(valid, lf) == lf \/ ~valid

\* the conversations memory.json holds after write_memory(data)
FileAfterWrite(file, data, sv) ==
    IF sv = "ok" THEN data
    ELSE IF sv = "open_fails" THEN file
    ELSE EmptyDict

\* whether memory.json is a JSON document after write_memory
ValidAfterWrite(sv) == sv # "dump_fails"

\* the record of a call of the single caller: what it returned, the file
\* before it, how many messages its key had, and the call before it
CallRecord(op, key, raised, got, keys) ==
    [op |-> op, key |-> key, raised |-> raised, got |-> got, keys |-> keys,
     before |-> memory, before_valid |-> memory_valid,
     had |-> Len(DictGet(memory, key)),
     prev |-> [op |-> last.op, key |-> last.key, had |-> last.had,
               out |-> IF last.op = "none" THEN "none"
                       ELSE IF last.raised THEN "raised" ELSE "returned"]]

\* a load-mutate-save method: self._load(), the mutation data, self._save
LoadMutateSave(op, key, data, lf, sv) ==
    /\ issued < MaxRepoCalls
    /\ issued' = issued + 1
    /\ IF LoadRaises(memory_valid, lf)
       THEN /\ UNCHANGED <<memory, memory_valid>>
            /\ last' = CallRecord(op, key, TRUE, << >>, {})
       ELSE /\ memory' = FileAfterWrite(memory, data, sv)
            /\ memory_valid' = ValidAfterWrite(sv)
            /\ last' = CallRecord(op, key, sv # "ok", << >>, {})
    /\ UNCHANGED <<clock, max_history, done, mpc, mop, mdata, rateVars,
                   queueVars, usage, askVars, lockVars, ucallVars,
                   engineVars>>

\* BotEngine.append_message, whole call
RepoAppend(convo_id, role, lf, sv) ==
    LoadMutateSave("append", convo_id,
                   AppendMutate(read_memory, convo_id, role, issued + 1,
                                clock, max_history), lf, sv)

\* a clear that leaves a note of the reset in the conversation
RepoClear_LeavesNote(convo_id, lf, sv) ==
    LoadMutateSave("clear", convo_id,
                   AppendMutate(ClearMutate(read_memory, convo_id), convo_id,
                                "system", issued + 1, clock, max_history),
                   lf, sv)

\* BotEngine.clear_conversation, whole call
RepoClear(convo_id, lf, sv) ==
    LoadMutateSave("clear", convo_id, ClearMutate(read_memory, convo_id),
                   lf, sv)

\* BotEngine.get_conversation, whole call
RepoGet(convo_id, lf) ==
    /\ issued < MaxRepoCalls
    /\ issued' = issued + 1
    /\ last' = IF LoadRaises(memory_valid, lf)
               THEN CallRecord("get", convo_id, TRUE, << >>, {})
               ELSE CallRecord("get", convo_id, FALSE,
                               get_conversation(convo_id), {})
    /\ UNCHANGED <<clock, max_history, memory, done, mpc, mop, mdata,
                   rateVars, queueVars, usage, askVars, memory_valid,
                   lockVars, ucallVars, engineVars>>

\* BotEngine.list_conversations, whole call
RepoList(lf) ==
    /\ issued < MaxRepoCalls
    /\ issued' = issued + 1
    /\ last' = IF LoadRaises(memory_valid, lf)
               THEN CallRecord("list", "none", TRUE, << >>, {})
               ELSE CallRecord("list", "none", FALSE, << >>,
                               list_conversations)
    /\ UNCHANGED <<clock, max_history, memory, done, mpc, mop, mdata,
                   rateVars, queueVars, usage, askVars, memory_valid,
                   lockVars, ucallVars, engineVars>>

NextRepo ==
    \/ \E k \in Keys, r \in Roles, lf \in BOOLEAN, sv \in SaveOutcomes :
           RepoAppend(k, r, lf, sv)
    \/ \E k \in Keys, lf \in BOOLEAN, sv \in SaveOutcomes : RepoClear(k, lf, sv)
    \/ \E k \in Keys, lf \in BOOLEAN : RepoGet(k, lf)
    \/ \E lf \in BOOLEAN : RepoList(lf)

SpecRepo == InitMem /\ [][NextRepo]_vars

----------------------------------------------------------------------------
(* Rate limiting *)

RATE_WINDOW == 10   \* seconds
RATE_MAX == 3       \* NEURA_RATE_MAX of the environment

\* a limiter that never forgets a timestamp
Prune_KeepsAll(arr, now) == arr

\* arr[:] = [t for t in arr if t >= window_start]
Prune(arr, now) ==
    LET window_start == now - RATE_WINDOW
        Keep(t) == t >= window_start
    IN  SelectSeq(arr, Keep)

\* the value is_rate_limited returns for a window arr and a time now
Limited(arr, now) == Len(Prune(arr, now)) >= RATE_MAX

\* a limiter that records the time of a denied call as well
WindowAfter_RecordsDenied(arr, now) == Append(Prune(arr, now), now)

\* the list is_rate_limited leaves in _rate_store[ip]
WindowAfter(arr, now) ==
    IF Limited(arr, now) THEN Prune(arr, now) ELSE Append(Prune(arr, now), now)

\* a limiter with one window for all clients
StoreKey_Shared(ip) == "A"

\* the key is_rate_limited works on
StoreKey(ip) == ip

\* is_rate_limited: now = time.time(), taken before _rate_lock
ReadNow(t, ip) ==
    /\ rpc[t] = "idle"
    /\ rcalls < MaxRateCalls
    /\ rcalls' = rcalls + 1
    /\ rip' = [rip EXCEPT ![t] = ip]
    /\ rnow' = [rnow EXCEPT ![t] = clock]
    /\ rpc' = [rpc EXCEPT ![t] = "lock"]
    /\ UNCHANGED <<clock, memVars, queueVars, rate_store, rres, rlog,
                   usage, askVars,
                   repoVars, lockVars, ucallVars, engineVars>>

\* is_rate_limited: the block under _rate_lock, and the return
CheckWindow(t) ==
    /\ rpc[t] = "lock"
    /\ LET arr == DictGet(rate_store, StoreKey(rip[t]))
       IN  /\ rate_store' = DictSet(rate_store, StoreKey(rip[t]),
                                    WindowAfter(arr, rnow[t]))
           /\ rres' = [rres EXCEPT ![t] = Limited(arr, rnow[t])]
           /\ rlog' = [rlog EXCEPT ![rip[t]] =
                          Append(@, [now |-> rnow[t],
                                     limited |-> Limited(arr, rnow[t])])]
    /\ rpc' = [rpc EXCEPT ![t] = "idle"]
    /\ UNCHANGED <<clock, memVars, queueVars, rip, rnow, rcalls,
                   usage, askVars,
                   repoVars, lockVars, ucallVars, engineVars>>

TickRate == Tick(ClockStep, MaxRateClock) /\ UNCHANGED <<memVars, rateVars, queueVars,
                   usage, askVars,
                   repoVars, lockVars, ucallVars, engineVars>>

InitRate ==
    /\ clock = 0
    /\ StoreStart
    /\ max_history = DefaultMaxHistory
    /\ MemStart
    /\ RateStart
    /\ QueueStart
    /\ AskStart

NextRate ==
    \/ \E t \in Threads, ip \in Clients : ReadNow(t, ip)
    \/ \E t \in Threads : CheckWindow(t)
    \/ TickRate

SpecRate == InitRate /\ [][NextRate]_vars

----------------------------------------------------------------------------
(* Background worker queue & scheduler *)

\* a queue that hands out the newest task first
\* append_usage, under _usage_lock from the read of usage.json to its
\* write; fails: opening the file for writing raises, which leaves the file
\* as it was and propagates to the caller.
append_usage(calls, entry, fails) ==
    IF fails THEN calls ELSE Append(calls, entry)

Enqueue_Front(q, task) == <<task>> \o q

\* WORKER_QUEUE.put(task_wrapper)
Enqueue(q, task) == Append(q, task)

\* a get that leaves the task in the queue
Dequeue_Peek(q) == q

\* what WORKER_QUEUE.get leaves in the queue
Dequeue(q) == Tail(q)

\* a worker without the except clause: the exception ends the thread
AfterTaskRaises_Propagates == "exited"

\* where worker_thread continues when task() raised: except, finally, next
\* iteration of the loop
AfterTaskRaises == "loop"

\* a task_wrapper without try/except, under a worker without one either
AfterFuncRaises_Propagates == "exited"

\* where worker_thread continues when func() raised: task_wrapper logs the
\* exception and returns normally
AfterFuncRaises == "loop"

\* schedule_task(func, delay); fails tells whether func() will raise.  The
\* put is the only access to shared state, so the calls of any number of
\* producers are puts in some order.
schedule_task(delay, fails) ==
    /\ Len(sched) < MaxTasks
    /\ delay < 0 => ~fails       \* func is never reached after a failed sleep
    /\ LET task == [id |-> Len(sched) + 1, delay |-> delay, fails |-> fails]
       IN  /\ WORKER_QUEUE' = Enqueue(WORKER_QUEUE, task)
           /\ sched' = Append(sched, task)
    /\ UNCHANGED <<clock, memVars, rateVars, WORKER_RUNNING, wpc, wtask,
                   wwake, started, finished, stopped,
                   usage, askVars,
                   repoVars, lockVars, ucallVars, engineVars>>

\* worker_thread: while WORKER_RUNNING
WorkerLoop ==
    /\ wpc = "loop"
    /\ wpc' = IF WORKER_RUNNING THEN "get" ELSE "exited"
    /\ UNCHANGED <<clock, memVars, rateVars, WORKER_QUEUE, WORKER_RUNNING,
                   wtask, wwake, sched, started, finished, stopped,
                   usage, askVars,
                   repoVars, lockVars, ucallVars, engineVars>>

\* worker_thread: WORKER_QUEUE.get(timeout=1) returns a task, task() is called
WorkerGet ==
    /\ wpc = "get"
    /\ WORKER_QUEUE # << >>
    /\ wtask' = Head(WORKER_QUEUE)
    /\ WORKER_QUEUE' = Dequeue(WORKER_QUEUE)
    /\ started' = Append(started, Head(WORKER_QUEUE).id)
    /\ wwake' = clock + Head(WORKER_QUEUE).delay
    /\ wpc' = "sleep"
    /\ UNCHANGED <<clock, memVars, rateVars, WORKER_RUNNING, sched, finished,
                   stopped,
                   usage, askVars,
                   repoVars, lockVars, ucallVars, engineVars>>

\* worker_thread: WORKER_QUEUE.get(timeout=1) raises queue.Empty; continue
WorkerEmpty ==
    /\ wpc = "get"
    /\ WORKER_QUEUE = << >>
    /\ wpc' = "loop"
    /\ UNCHANGED <<clock, memVars, rateVars, WORKER_QUEUE, WORKER_RUNNING,
                   wtask, wwake, sched, started, finished, stopped,
                   usage, askVars,
                   repoVars, lockVars, ucallVars, engineVars>>

\* task_wrapper: time.sleep(delay); a negative delay raises ValueError, which
\* leaves task_wrapper and is caught by worker_thread
WorkerSleep ==
    /\ wpc = "sleep"
    /\ IF wtask.delay < 0
       THEN /\ finished' = Append(finished, [id |-> wtask.id, ok |-> FALSE])
            /\ wtask' = NoTask
            /\ wpc' = AfterTaskRaises
       ELSE /\ clock >= wwake
            /\ wpc' = "func"
            /\ UNCHANGED <<wtask, finished>>
    /\ wwake' = 0
    /\ UNCHANGED <<clock, memVars, rateVars, WORKER_QUEUE, WORKER_RUNNING,
                   sched, started, stopped,
                   usage, askVars,
                   repoVars, lockVars, ucallVars, engineVars>>

\* task_wrapper: func() under try/except; then finally: task_done()
WorkerFunc ==
    /\ wpc = "func"
    /\ finished' = Append(finished, [id |-> wtask.id, ok |-> ~wtask.fails])
    /\ usage' = IF "entry" \in DOMAIN wtask
                THEN append_usage(usage, [wtask.entry EXCEPT !.time = clock],
                                  wtask.fails)
                ELSE usage
    /\ wtask' = NoTask
    /\ wpc' = IF wtask.fails THEN AfterFuncRaises ELSE "loop"
    /\ UNCHANGED <<clock, memVars, rateVars, WORKER_QUEUE, WORKER_RUNNING,
                   wwake, sched, started, stopped, askVars,
                   repoVars, lockVars, ucallVars, engineVars>>

\* atexit: WORKER_RUNNING = False
Stop ==
    /\ WORKER_RUNNING
    /\ WORKER_RUNNING' = FALSE
    /\ stopped' = [pc |-> wpc, begun |-> Len(started)]
    /\ UNCHANGED <<clock, memVars, rateVars, WORKER_QUEUE, wpc, wtask, wwake,
                   sched, started, finished,
                   usage, askVars,
                   repoVars, lockVars, ucallVars, engineVars>>

\* Time passes while the worker runs.  Only the distance from the clock to
\* the end of the sleep matters to the worker, so once the clock has reached
\* MaxQueueClock the passing of a second moves the end of the sleep instead.
TickQueue ==
    /\ IF clock < MaxQueueClock
       THEN Tick(1, MaxQueueClock) /\ wwake' = wwake
       ELSE wwake > clock /\ wwake' = wwake - 1 /\ clock' = clock
    /\ UNCHANGED <<memVars, rateVars, WORKER_QUEUE, WORKER_RUNNING, wpc,
                   wtask, sched, started, finished, stopped,
                   usage, askVars,
                   repoVars, lockVars, ucallVars, engineVars>>

InitQueue ==
    /\ clock = 0
    /\ StoreStart
    /\ max_history = DefaultMaxHistory
    /\ MemStart
    /\ RateStart
    /\ QueueStart
    /\ AskStart

NextQueue ==
    \/ \E d \in Delays, f \in BOOLEAN : schedule_task(d, f)
    \/ WorkerLoop
    \/ WorkerGet
    \/ WorkerEmpty
    \/ WorkerSleep
    \/ WorkerFunc
    \/ Stop
    \/ TickQueue

SpecQueue == InitQueue /\ [][NextQueue]_vars

\* the steps of worker_thread
Worker == WorkerLoop \/ WorkerGet \/ WorkerEmpty \/ WorkerSleep \/ WorkerFunc

\* the runs in which the stop flag is never set
NextQueueLive ==
    \/ \E d \in Delays, f \in BOOLEAN : schedule_task(d, f)
    \/ Worker
    \/ TickQueue

\* The worker is a thread of its own that the interpreter keeps scheduling
\* (weak fairness of its steps), and time passes.
SpecQueueLive ==
    /\ InitQueue
    /\ [][NextQueueLive]_vars
    /\ WF_vars(Worker)
    /\ WF_vars(TickQueue)

----------------------------------------------------------------------------
(* SpecUsage: several threads (request threads, the worker) running         *)
(* append_usage, at the steps of the function: the acquisition of           *)
(* _usage_lock, the read of usage.json, and the write with the release of   *)
(* the lock at the end of the with block.                                   *)

\* a lock that anybody may take at any time
CanAcquire_Always(lock) == TRUE

\* threading.Lock: acquire goes through when nobody holds the lock
CanAcquire(lock) == lock = Free

\* the number of append_usage calls made so far
UsageCalls == Len(urec) + Cardinality({t \in Threads : upc[t] # "idle"})

\* append_usage(entry) is called
UsageCall(t) ==
    /\ upc[t] = "idle"
    /\ UsageCalls < MaxUsageCalls
    /\ uarg' = [uarg EXCEPT ![t] = [req |-> UsageCalls + 1,
                                    contended |-> usage_lock # Free]]
    /\ upc' = [upc EXCEPT ![t] = "lock"]
    /\ UNCHANGED <<clock, memVars, rateVars, queueVars, usage, askVars,
                   repoVars, lockVars, udata, urec, engineVars>>

\* with _usage_lock:
UsageAcquire(t) ==
    /\ upc[t] = "lock"
    /\ CanAcquire(usage_lock)
    /\ usage_lock' = t
    /\ upc' = [upc EXCEPT ![t] = "read"]
    /\ UNCHANGED <<clock, memVars, rateVars, queueVars, usage, askVars,
                   repoVars, memory_lock, rate_lock, uarg, udata, urec,
                   engineVars>>

\* the try block: u = json.load(f), or u = {"calls": []} when the open or
\* the load raises (lf)
UsageRead(t, lf) ==
    /\ upc[t] = "read"
    /\ udata' = [udata EXCEPT ![t] =
                    [calls |-> IF lf THEN << >> ELSE usage, reset |-> lf]]
    /\ upc' = [upc EXCEPT ![t] = "write"]
    /\ UNCHANGED <<clock, memVars, rateVars, queueVars, usage, askVars,
                   repoVars, lockVars, uarg, urec, engineVars>>

\* u["calls"].append(entry), the write of usage.json and the end of the with
\* block.  A json.dump that raises leaves a truncated file, which the next
\* append_usage reads as an empty log.
UsageWrite(t, sv) ==
    /\ upc[t] = "write"
    /\ usage' = FileAfterWrite(usage,
                               Append(udata[t].calls, [req |-> uarg[t].req]),
                               sv)
    /\ usage_lock' = Free
    /\ urec' = Append(urec, [req |-> uarg[t].req, raised |-> sv # "ok",
                             reset |-> udata[t].reset,
                             contended |-> uarg[t].contended])
    /\ upc' = [upc EXCEPT ![t] = "idle"]
    /\ uarg' = [uarg EXCEPT ![t] = NoEntry]
    /\ udata' = [udata EXCEPT ![t] = NoData]
    /\ UNCHANGED <<clock, memVars, rateVars, queueVars, askVars, repoVars,
                   memory_lock, rate_lock, engineVars>>

InitUsage ==
    /\ clock = 0
    /\ StoreStart
    /\ max_history = DefaultMaxHistory
    /\ MemStart
    /\ RateStart
    /\ QueueStart
    /\ AskStart

NextUsage ==
    \/ \E t \in Threads : UsageCall(t)
    \/ \E t \in Threads : UsageAcquire(t)
    \/ \E t \in Threads, lf \in BOOLEAN : UsageRead(t, lf)
    \/ \E t \in Threads, sv \in SaveOutcomes : UsageWrite(t, sv)

SpecUsage == InitUsage /\ [][NextUsage]_vars

-----------------------------------------------------------------------------
(* The /ask handler: ask() and BotEngine.generate *)

\* The system prompts, each as the clauses it is made of; prompt i of the
\* table is the text 0 - i.
PromptTable ==
    << <<"base">>,
       <<"base", "safety">>,
       <<"base", "business">>,
       <<"base", "creative">>,
       <<"base", "debug">>,
       <<"base", "safety", "business">>,
       <<"base", "safety", "creative">>,
       <<"base", "safety", "debug">>,
       <<"base", "business", "safety">>,
       <<"base", "creative", "safety">>,
       <<"base", "debug", "safety">> >>

\* the clauses of the text p
PromptText(p) == PromptTable[0 - p]

\* base += clause
Plus(p, clause) ==
    0 - (CHOOSE i \in DOMAIN PromptTable :
             PromptTable[i] = Append(PromptText(p), clause))

BasePrompt == 0 - 1     \* _system_prompt: base

\* the text _system_prompt() returns
SystemPrompt ==
    IF safe_mode THEN Plus(BasePrompt, "safety") ELSE BasePrompt

TextLen(x) == IF x = EmptyText THEN 0 ELSE 1

RECURSIVE PromptLen(_)
\* sum(len(m.get("content","")) for m in messages)
PromptLen(msgs) ==
    IF msgs = << >> THEN 0
    ELSE TextLen(Head(msgs).content) + PromptLen(Tail(msgs))

\* a generate that puts the history after the user message
BuildMessages_HistoryLast(history, user_text) ==
    <<[role |-> "system", content |-> SystemPrompt]>>
    \o <<[role |-> "user", content |-> user_text]>>
    \o [i \in 1..Len(history) |->
            [role |-> history[i].role, content |-> history[i].content]]

\* generate: "# build messages"
BuildMessages(history, user_text) ==
    <<[role |-> "system", content |-> SystemPrompt]>>
    \o [i \in 1..Len(history) |->
            [role |-> history[i].role, content |-> history[i].content]]
    \o <<[role |-> "user", content |-> user_text]>>

\* generate: "if convo_id:", the history that goes into the messages
HistoryFor(convo_id) ==
    IF convo_id = NoConvo THEN << >> ELSE get_conversation(convo_id)

\* generate: "if convo_id:", where it goes on after the backend call
AfterCall(convo_id) ==
    IF convo_id = NoConvo THEN "usage" ELSE "append_user"

\* ask: the mode branch
PersonaAfter(persona, mode) ==
    IF mode = "business" THEN "business"
    ELSE IF mode = "creative" THEN "creative"
    ELSE persona

\* an ask that serves empty commands like any other
Validate_AcceptsAll(command) == "serve"

\* ask: if not command
Validate(command) == IF command = EmptyText THEN "invalid" ELSE "serve"

\* an ask that looks at the command before the rate limit
AskOutcome_ValidatesFirst(limited, command) ==
    IF Validate(command) = "invalid" THEN "invalid"
    ELSE IF limited THEN "rate_limited"
    ELSE "serve"

\* ask up to the mode branch: the rate limit first, then the command
AskOutcome(limited, command) ==
    IF limited THEN "rate_limited" ELSE Validate(command)

\* the responses of ask to request i
RateLimitedResponse(i) ==
    [id |-> i, status |-> 429, error |-> "rate_limited", answer |-> EmptyText]
InvalidResponse(i) ==
    [id |-> i, status |-> 400, error |-> "no command provided",
     answer |-> EmptyText]
ErrorResponse(i, msg) ==
    [id |-> i, status |-> 500, error |-> msg, answer |-> EmptyText]
AnswerResponse(i, content) ==
    [id |-> i, status |-> 200, error |-> "", answer |-> content]

\* ask returns: the thread is free again
Return(t, response) ==
    /\ aresult' = [aresult EXCEPT ![t] = response]
    /\ apc' = [apc EXCEPT ![t] = "idle"]
    /\ amsgs' = [amsgs EXCEPT ![t] = << >>]
    /\ acontent' = [acontent EXCEPT ![t] = EmptyText]
    /\ acall' = [acall EXCEPT ![t] = NoCall]

\* an ask that reads the command before it calls is_rate_limited, and
\* calls it only for a request with a command
AdmissionWindow_ValidatesFirst(arr, now, command) ==
    IF command = EmptyText THEN arr ELSE WindowAfter(arr, now)

\* ask: is_rate_limited(ip) is called before the body of the request is
\* read
AdmissionWindow(arr, now, command) == WindowAfter(arr, now)

\* ask from is_rate_limited to the mode branch.  A request that is turned
\* away returns here; one that is served goes on to schedule_task.  n: the
\* number of requests of the model; keeps: whether areq keeps the mode of
\* the request.
AskArrive(n, keeps, t, ip, convo_id, text, mode) ==
    /\ apc[t] = "idle"
    /\ asked < n
    /\ asked' = asked + 1
    /\ LET i == asked + 1
           command == IF text = EmptyText THEN EmptyText ELSE UserText(i)
           arr == DictGet(rate_store, StoreKey(ip))
           outcome == AskOutcome(Limited(arr, clock), command)
           same == {u \in Threads \ {t} :
                       apc[u] # "idle" /\ areq[u].convo = convo_id}
       IN  /\ rate_store' = DictSet(rate_store, StoreKey(ip),
                                    AdmissionWindow(arr, clock, command))
           /\ areq' = [areq EXCEPT ![t] =
                  [id |-> i, ip |-> ip, convo |-> convo_id,
                   command |-> command,
                   mode |-> IF keeps THEN mode ELSE "none"]]
           /\ IF outcome = "serve"
              THEN /\ set_persona' = PersonaAfter(set_persona, mode)
                   /\ apc' = [apc EXCEPT ![t] = "schedule"]
                   /\ acall' = [u \in Threads |->
                          IF u = t
                          THEN [prior |-> DictGet(memory, convo_id),
                                alone |-> same = {}]
                          ELSE IF u \in same
                               THEN [acall[u] EXCEPT !.alone = FALSE]
                               ELSE acall[u]]
                   /\ UNCHANGED <<aresult, amsgs, acontent>>
              ELSE /\ Return(t, IF outcome = "rate_limited"
                                THEN RateLimitedResponse(i)
                                ELSE InvalidResponse(i))
                   /\ UNCHANGED set_persona
    /\ UNCHANGED <<clock, memVars, queueVars, usage, backend_ready, rpc, rip,
                   rnow, rres, rcalls, rlog,
                   repoVars, lockVars, ucallVars, engineVars>>

AskAdmit(t, ip, convo_id, text, mode) ==
    AskArrive(MaxAsks, FALSE, t, ip, convo_id, text, mode)

\* tool_summarize up to the call of BOT.generate(prompt, convo_id=None): no
\* rate limit, no conversation and no scheduled task
ToolCall(n, t, text) ==
    /\ apc[t] = "idle"
    /\ asked < n
    /\ asked' = asked + 1
    /\ LET i == asked + 1
           prompt == IF text = EmptyText THEN EmptyText ELSE UserText(i)
       IN  /\ areq' = [areq EXCEPT ![t] =
                  [id |-> i, ip |-> "none", convo |-> NoConvo,
                   command |-> prompt, mode |-> "none"]]
           /\ IF text = EmptyText
              THEN Return(t, InvalidResponse(i))
              ELSE /\ apc' = [apc EXCEPT ![t] = "generate"]
                   /\ acall' = [acall EXCEPT ![t] = NoCall]
                   /\ UNCHANGED <<aresult, amsgs, acontent>>
    /\ UNCHANGED <<clock, memVars, rateVars, queueVars, usage, backend_ready,
                   set_persona, repoVars, lockVars, ucallVars, engineVars>>

\* ask: "# schedule a background metric log"; fails tells whether the
\* append_usage of the task will raise
AskSchedule(t, fails) ==
    /\ apc[t] = "schedule"
    /\ LET task == [id |-> Len(sched) + 1, delay |-> 0, fails |-> fails,
                    entry |-> [event |-> "ask_called", time |-> 0,
                               convo |-> areq[t].convo, req |-> areq[t].id]]
       IN  /\ WORKER_QUEUE' = Enqueue(WORKER_QUEUE, task)
           /\ sched' = Append(sched, task)
    /\ apc' = [apc EXCEPT ![t] = "generate"]
    /\ UNCHANGED <<clock, memVars, rateVars, usage, WORKER_RUNNING, wpc, wtask,
                   wwake, started, finished, stopped, backend_ready,
                   set_persona, areq, amsgs, acontent, asked, aresult, acall,
                   repoVars, lockVars, ucallVars, engineVars>>

\* generate up to the try block: the two configuration checks, then the
\* messages are built from the stored conversation
AskBuild(t) ==
    /\ apc[t] = "generate"
    /\ IF backend_ready
       THEN /\ amsgs' = [amsgs EXCEPT ![t] =
                   BuildMessages(HistoryFor(areq[t].convo),
                                 areq[t].command)]
            /\ apc' = [apc EXCEPT ![t] = "call"]
            /\ UNCHANGED <<acontent, aresult, acall>>
       ELSE Return(t, ErrorResponse(areq[t].id, "not configured"))
    /\ UNCHANGED <<clock, memVars, rateVars, queueVars, usage, backend_ready,
                   set_persona, areq, asked,
                   repoVars, lockVars, ucallVars, engineVars>>

\* a generate that goes back to its start when the backend call fails
AskCall_Retries(t, ok) ==
    /\ apc[t] = "call"
    /\ IF ok
       THEN /\ acontent' = [acontent EXCEPT ![t] = ReplyText(areq[t].id)]
            /\ apc' = [apc EXCEPT ![t] = "append_user"]
            /\ UNCHANGED amsgs
       ELSE /\ apc' = [apc EXCEPT ![t] = "generate"]
            /\ amsgs' = [amsgs EXCEPT ![t] = << >>]
            /\ UNCHANGED acontent
    /\ UNCHANGED <<clock, memVars, rateVars, queueVars, usage, backend_ready,
                   set_persona, areq, asked, aresult, acall,
                   repoVars, lockVars, ucallVars, engineVars>>

\* a generate that stores the user message before it calls the backend
AskCall_AppendsFirst(t, ok) ==
    /\ apc[t] = "call"
    /\ memory' = AppendMutate(read_memory, areq[t].convo, "user",
                              areq[t].command, clock, max_history)
    /\ IF ok
       THEN /\ acontent' = [acontent EXCEPT ![t] = ReplyText(areq[t].id)]
            /\ apc' = [apc EXCEPT ![t] = "append_assistant"]
            /\ UNCHANGED <<amsgs, aresult, acall>>
       ELSE Return(t, ErrorResponse(areq[t].id, "backend"))
    /\ UNCHANGED <<clock, max_history, issued, done, mpc, mop, mdata,
                   rateVars, queueVars, usage, backend_ready, set_persona,
                   areq, asked,
                   repoVars, lockVars, ucallVars, engineVars>>

\* generate: openai.ChatCompletion.create returns, or raises and the except
\* block turns the exception into the error result
AskCall(t, ok) ==
    /\ apc[t] = "call"
    /\ IF ok
       THEN /\ acontent' = [acontent EXCEPT ![t] = ReplyText(areq[t].id)]
            /\ apc' = [apc EXCEPT ![t] = AfterCall(areq[t].convo)]
            /\ UNCHANGED <<amsgs, aresult, acall>>
       ELSE Return(t, ErrorResponse(areq[t].id, "backend"))
    /\ UNCHANGED <<clock, memVars, rateVars, queueVars, usage, backend_ready,
                   set_persona, areq, asked,
                   repoVars, lockVars, ucallVars, engineVars>>

\* append_message(convo_id, role, content) of generate up to
\* self._save(data); fails: read_memory raises, which the except block of
\* generate turns into the error result
AskAppendLoad(t, role, content, fails, next) ==
    IF fails
    THEN /\ Return(t, ErrorResponse(areq[t].id, "storage"))
         /\ mdata' = [mdata EXCEPT ![t] = EmptyDict]
    ELSE /\ mdata' = [mdata EXCEPT ![t] =
                AppendMutate(read_memory, areq[t].convo, role, content,
                             clock, max_history)]
         /\ apc' = [apc EXCEPT ![t] = next]
         /\ UNCHANGED <<amsgs, acontent, aresult, acall>>

\* self._save(data) of that append_message
AskSave(t, next) ==
    /\ memory' = mdata[t]
    /\ mdata' = [mdata EXCEPT ![t] = EmptyDict]
    /\ apc' = [apc EXCEPT ![t] = next]
    /\ UNCHANGED <<clock, max_history, issued, done, mpc, mop, rateVars,
                   queueVars, usage, backend_ready, set_persona, areq, amsgs,
                   acontent, asked, aresult, acall,
                   repoVars, lockVars, ucallVars, engineVars>>

\* generate: self.append_message(convo_id, "user", user_text)
AskAppendUser(t, fails) ==
    /\ apc[t] = "append_user"
    /\ AskAppendLoad(t, "user", areq[t].command, fails, "save_user")
    /\ UNCHANGED <<clock, max_history, memory, issued, done, mpc, mop,
                   rateVars, queueVars, usage, backend_ready, set_persona,
                   areq, asked,
                   repoVars, lockVars, ucallVars, engineVars>>

AskSaveUser(t) ==
    apc[t] = "save_user" /\ AskSave(t, "append_assistant")

\* generate: self.append_message(convo_id, "assistant", content)
AskAppendAssistant(t, fails) ==
    /\ apc[t] = "append_assistant"
    /\ AskAppendLoad(t, "assistant", acontent[t], fails, "save_assistant")
    /\ UNCHANGED <<clock, max_history, memory, issued, done, mpc, mop,
                   rateVars, queueVars, usage, backend_ready, set_persona,
                   areq, asked,
                   repoVars, lockVars, ucallVars, engineVars>>

AskSaveAssistant(t) ==
    apc[t] = "save_assistant" /\ AskSave(t, "usage")

\* generate: "# log usage" and the return; ask turns the result into its
\* response.  fails: append_usage raises, and the except block of generate
\* turns the exception into the error result.
AskUsage(t, fails) ==
    /\ apc[t] = "usage"
    /\ LET usage_entry == [time |-> clock, convo |-> areq[t].convo,
                           model |-> "NEURA_MODEL",
                           prompt_len |-> PromptLen(amsgs[t]),
                           usage |-> "usage_info", req |-> areq[t].id]
       IN  usage' = append_usage(usage, usage_entry, fails)
    /\ Return(t, IF fails THEN ErrorResponse(areq[t].id, "usage")
                  ELSE AnswerResponse(areq[t].id, acontent[t]))
    /\ UNCHANGED <<clock, memVars, rateVars, queueVars, backend_ready,
                   set_persona, areq, asked,
                   repoVars, lockVars, ucallVars, engineVars>>

\* The server after client A has sent RATE_MAX requests without a command at
\* time 0: they were admitted and turned away, which leaves nothing but A's
\* window.  mh: the max_history of BOT.
ServerAfterDenials(mh) ==
    /\ clock = 0
    /\ StoreStart
    /\ max_history = mh
    /\ MemStart
    /\ rate_store = DictSet(EmptyDict, "A", [i \in 1..RATE_MAX |-> 0])
    /\ rpc = [t \in Threads |-> "idle"]
    /\ rip = [t \in Threads |-> "none"]
    /\ rnow = [t \in Threads |-> 0]
    /\ rres = [t \in Threads |-> FALSE]
    /\ rcalls = 0
    /\ rlog = [c \in Clients |-> << >>]
    /\ QueueStart
    /\ AskIdle
    /\ backend_ready \in BOOLEAN

\* max_history stands for the 30 of BOT, scaled down to the conversations of
\* the model.
InitAsk == ServerAfterDenials(MaxHistoryBound)

\* BOT = BotEngine(): max_history is 30, more than the requests of the model
\* can store
InitAskDefault == ServerAfterDenials(DefaultMaxHistory)

\* the steps of the request threads hs after the arrival of a request; fs:
\* whether the usage write of a scheduled task may fail; gs: whether the
\* file accesses of generate may fail
Serve(hs, fs, gs) ==
    \/ \E t \in hs, f \in fs : AskSchedule(t, f)
    \/ \E t \in hs : AskBuild(t)
    \/ \E t \in hs, ok \in BOOLEAN : AskCall(t, ok)
    \/ \E t \in hs, f \in gs : AskAppendUser(t, f)
    \/ \E t \in hs : AskSaveUser(t)
    \/ \E t \in hs, f \in gs : AskAppendAssistant(t, f)
    \/ \E t \in hs : AskSaveAssistant(t)
    \/ \E t \in hs, f \in gs : AskUsage(t, f)

\* the steps of the request threads hs for requests with a mode of ms
Handle(hs, fs, ms) ==
    \/ \E t \in hs, ip \in Clients, k \in Keys, x \in Texts, m \in ms :
           AskAdmit(t, ip, k, x, m)
    \/ Serve(hs, fs, BOOLEAN)

\* Two requests served at a time, with modes that leave BOT.set_persona
\* alone, in the runs in which the worker has not yet taken up the scheduled
\* tasks.
NextAsk == Handle(Handlers, {FALSE}, QuietModes)

SpecAsk == InitAsk /\ [][NextAsk]_vars

\* the same with the max_history of the shared BOT instance
SpecAskDefault == InitAskDefault /\ [][NextAsk]_vars

\* One request served at a time, of any mode, beside the worker.
NextAskWorker ==
    \/ Handle({1}, BOOLEAN, Modes)
    \/ Worker

SpecAskWorker == InitAsk /\ [][NextAskWorker]_vars

\* The server as it starts, with either setting of NEURA_SAFE_MODE.
InitPayload ==
    /\ clock = 0
    /\ FilesStart
    /\ safe_mode \in BOOLEAN
    /\ max_history = DefaultMaxHistory
    /\ MemStart
    /\ RateStart
    /\ QueueStart
    /\ AskStart

\* One request thread serving /ask requests of one client, of any mode and
\* conversation, and /tools/summarize requests, with file accesses that
\* succeed; areq keeps the modes.
NextPayload ==
    \/ \E k \in Keys, x \in Texts, m \in Modes :
           AskArrive(MaxPayloadAsks, TRUE, 1, "A", k, x, m)
    \/ \E x \in Texts : ToolCall(MaxPayloadAsks, 1, x)
    \/ Serve({1}, {FALSE}, {FALSE})

SpecPayload == InitPayload /\ [][NextPayload]_vars

\* One request thread serving /ask requests of the two clients on one
\* conversation, from the start of the server, while time passes.
NextAdmit ==
    \/ \E ip \in Clients, x \in Texts :
           AskArrive(MaxAdmitAsks, FALSE, 1, ip, "c1", x, "default")
    \/ Serve({1}, {FALSE}, {FALSE})
    \/ TickRate

SpecAdmit == InitUsage /\ [][NextAdmit]_vars

-----------------------------------------------------------------------------
(* The generate of src/bot_engine.py ("Beast Mode"), run by several threads *)

\* generate: "# adjust for mode"
BeastPrompt(mode) ==
    IF mode \in {"business", "creative", "debug"}
    THEN Plus(SystemPrompt, mode)
    ELSE SystemPrompt

\* generate: messages, from the system message to the user message
BeastMessages(mode, history, user_text) ==
    <<[role |-> "system", content |-> BeastPrompt(mode)]>>
    \o Tail(BuildMessages(history, user_text))

\* the with block is left: _lock is released, and with the return of
\* generate nothing refers to it any more
BeastReturn(t, response) ==
    /\ Return(t, response)
    /\ gen_lock' = [gen_lock EXCEPT ![t] = NoLock]

\* a call of generate begins: _lock = threading.Lock()
BeastEnter(t, convo_id, mode) ==
    /\ apc[t] = "idle"
    /\ asked < MaxBeastCalls
    /\ asked' = asked + 1
    /\ areq' = [areq EXCEPT ![t] =
           [id |-> asked + 1, ip |-> "none", convo |-> convo_id,
            command |-> UserText(asked + 1), mode |-> mode]]
    /\ gen_lock' = [gen_lock EXCEPT ![t] = Free]
    /\ apc' = [apc EXCEPT ![t] = "lock"]
    /\ UNCHANGED <<clock, memVars, rateVars, queueVars, usage, backend_ready,
                   set_persona, amsgs, acontent, aresult, acall, repoVars,
                   lockVars, ucallVars, safe_mode>>

\* with _lock: the lock of this call is acquired
BeastAcquire(t) ==
    /\ apc[t] = "lock"
    /\ CanAcquire(gen_lock[t])
    /\ gen_lock' = [gen_lock EXCEPT ![t] = t]
    /\ apc' = [apc EXCEPT ![t] = "generate"]
    /\ UNCHANGED <<clock, memVars, rateVars, queueVars, usage, backend_ready,
                   set_persona, areq, amsgs, acontent, asked, aresult, acall,
                   repoVars, lockVars, ucallVars, safe_mode>>

\* generate from the configuration checks to the messages
BeastBuild(t) ==
    /\ apc[t] = "generate"
    /\ IF backend_ready
       THEN /\ amsgs' = [amsgs EXCEPT ![t] =
                   BeastMessages(areq[t].mode, HistoryFor(areq[t].convo),
                                 areq[t].command)]
            /\ apc' = [apc EXCEPT ![t] = "call"]
            /\ UNCHANGED <<acontent, aresult, acall, gen_lock>>
       ELSE BeastReturn(t, ErrorResponse(areq[t].id, "not configured"))
    /\ UNCHANGED <<clock, memVars, rateVars, queueVars, usage, backend_ready,
                   set_persona, areq, asked, repoVars, lockVars, ucallVars,
                   safe_mode>>

\* generate: client.chat.completions.create returns or raises
BeastCall(t, ok) ==
    /\ apc[t] = "call"
    /\ IF ok
       THEN /\ acontent' = [acontent EXCEPT ![t] = ReplyText(areq[t].id)]
            /\ apc' = [apc EXCEPT ![t] = AfterCall(areq[t].convo)]
            /\ UNCHANGED <<amsgs, aresult, acall, gen_lock>>
       ELSE BeastReturn(t, ErrorResponse(areq[t].id, "backend"))
    /\ UNCHANGED <<clock, memVars, rateVars, queueVars, usage, backend_ready,
                   set_persona, areq, asked, repoVars, lockVars, ucallVars,
                   safe_mode>>

\* generate: "# save to memory", an append_message up to self._save(data)
BeastAppend(t, role, content, fails, next) ==
    /\ IF fails
       THEN /\ BeastReturn(t, ErrorResponse(areq[t].id, "storage"))
            /\ mdata' = [mdata EXCEPT ![t] = EmptyDict]
       ELSE /\ AskAppendLoad(t, role, content, FALSE, next)
            /\ UNCHANGED gen_lock
    /\ UNCHANGED <<clock, max_history, memory, issued, done, mpc, mop,
                   rateVars, queueVars, usage, backend_ready, set_persona,
                   areq, asked, repoVars, lockVars, ucallVars, safe_mode>>

BeastAppendUser(t, fails) ==
    /\ apc[t] = "append_user"
    /\ BeastAppend(t, "user", areq[t].command, fails, "save_user")

BeastAppendAssistant(t, fails) ==
    /\ apc[t] = "append_assistant"
    /\ BeastAppend(t, "assistant", acontent[t], fails, "save_assistant")

\* generate: "# log usage and metadata" and the return
BeastUsage(t, fails) ==
    /\ apc[t] = "usage"
    /\ LET entry == [time |-> clock, convo |-> areq[t].convo,
                     model |-> "NEURA_MODEL", usage |-> "usage_info",
                     mode |-> areq[t].mode, req |-> areq[t].id]
       IN  usage' = append_usage(usage, entry, fails)
    /\ BeastReturn(t, IF fails THEN ErrorResponse(areq[t].id, "usage")
                       ELSE AnswerResponse(areq[t].id, acontent[t]))
    /\ UNCHANGED <<clock, memVars, rateVars, queueVars, backend_ready,
                   set_persona, areq, asked, repoVars, lockVars, ucallVars,
                   safe_mode>>

InitBeast ==
    /\ clock = 0
    /\ FilesStart
    /\ safe_mode \in BOOLEAN
    /\ max_history = DefaultMaxHistory
    /\ MemStart
    /\ RateStart
    /\ QueueStart
    /\ AskIdle
    /\ backend_ready \in BOOLEAN

\* Two threads calling generate on any conversation or none, in any mode.
NextBeast ==
    \/ \E t \in Handlers, k \in Keys \cup {NoConvo}, m \in Modes :
           BeastEnter(t, k, m)
    \/ \E t \in Handlers : BeastAcquire(t)
    \/ \E t \in Handlers : BeastBuild(t)
    \/ \E t \in Handlers, ok \in BOOLEAN : BeastCall(t, ok)
    \/ \E t \in Handlers, f \in BOOLEAN : BeastAppendUser(t, f)
    \/ \E t \in Handlers : AskSaveUser(t)
    \/ \E t \in Handlers, f \in BOOLEAN : BeastAppendAssistant(t, f)
    \/ \E t \in Handlers : AskSaveAssistant(t)
    \/ \E t \in Handlers, f \in BOOLEAN : BeastUsage(t, f)

SpecBeast == InitBeast /\ [][NextBeast]_vars

----------------------------------------------------------------------------
(* SpecLocks: the /ask handler and the worker at the steps of the three     *)
(* locks.  Each request is served by a thread of its own; a thread takes a  *)
(* lock in one step (with _x_lock:) and runs the block under it, to the end *)
(* of the with statement, in the next.                                      *)

WorkerThread == NumThreads + 1      \* the thread of worker_thread

\* the lock a request thread is about to take at a position of ask, and the
\* position inside the with block
Wants == [rate_lock |-> "rate", generate |-> "memory",
          append_user |-> "memory", user_save_lock |-> "memory",
          append_assistant |-> "memory", asst_save_lock |-> "memory",
          usage |-> "usage"]
Inside == [rate_lock |-> "rate_check", generate |-> "get_read",
           append_user |-> "user_load", user_save_lock |-> "user_save",
           append_assistant |-> "asst_load", asst_save_lock |-> "asst_save",
           usage |-> "usage_write"]

\* the holder of the lock named l
HolderOf(l) ==
    IF l = "memory" THEN memory_lock
    ELSE IF l = "usage" THEN usage_lock
    ELSE rate_lock

\* thread t takes the lock named l
Take(l, t) ==
    /\ CanAcquire(HolderOf(l))
    /\ memory_lock' = IF l = "memory" THEN t ELSE memory_lock
    /\ usage_lock' = IF l = "usage" THEN t ELSE usage_lock
    /\ rate_lock' = IF l = "rate" THEN t ELSE rate_lock

\* a read_memory that returns with the lock still held
AfterRead_KeepsLock(holder) == holder

\* _memory_lock at the end of the with block of read_memory, however the
\* block is left
AfterRead(holder) == Free

\* a write_memory that returns with the lock still held
AfterWrite_KeepsLock(holder) == holder

\* _memory_lock at the end of the with block of write_memory
AfterWrite(holder) == Free

\* a request arrives at a thread of its own; is_rate_limited reads the clock
LockArrive(t, ip, convo_id, text) ==
    /\ apc[t] = "idle"
    /\ areq[t] = NoReq
    /\ asked' = asked + 1
    /\ areq' = [areq EXCEPT ![t] =
           [id |-> asked + 1, ip |-> ip, convo |-> convo_id,
            command |-> IF text = EmptyText THEN EmptyText
                        ELSE UserText(asked + 1)]]
    /\ rnow' = [rnow EXCEPT ![t] = clock]
    /\ apc' = [apc EXCEPT ![t] = "rate_lock"]
    /\ UNCHANGED <<clock, memVars, rate_store, rpc, rip, rres, rcalls, rlog,
                   queueVars, usage, backend_ready, set_persona, amsgs,
                   acontent, aresult, acall, repoVars, lockVars, ucallVars,
                   engineVars>>

\* with _rate_lock: / with _memory_lock: / with _usage_lock: on the path of
\* a request
LockAcquire(t) ==
    /\ apc[t] \in DOMAIN Wants
    /\ apc[t] = "generate" => backend_ready
    /\ Take(Wants[apc[t]], t)
    /\ apc' = [apc EXCEPT ![t] = Inside[apc[t]]]
    /\ UNCHANGED <<clock, memVars, rateVars, queueVars, usage, backend_ready,
                   set_persona, areq, amsgs, acontent, asked, aresult, acall,
                   repoVars, ucallVars, engineVars>>

\* is_rate_limited under _rate_lock, and ask up to the mode branch
LockRateCheck(t, mode) ==
    /\ apc[t] = "rate_check"
    /\ LET arr == DictGet(rate_store, StoreKey(areq[t].ip))
           outcome == AskOutcome(Limited(arr, rnow[t]), areq[t].command)
       IN  /\ rate_store' = DictSet(rate_store, StoreKey(areq[t].ip),
                                    WindowAfter(arr, rnow[t]))
           /\ IF outcome = "serve"
              THEN /\ set_persona' = PersonaAfter(set_persona, mode)
                   /\ apc' = [apc EXCEPT ![t] = "schedule"]
                   /\ UNCHANGED <<aresult, amsgs, acontent, acall>>
              ELSE /\ Return(t, IF outcome = "rate_limited"
                                THEN RateLimitedResponse(areq[t].id)
                                ELSE InvalidResponse(areq[t].id))
                   /\ UNCHANGED set_persona
    /\ rate_lock' = Free
    /\ UNCHANGED <<clock, memVars, rpc, rip, rnow, rres, rcalls, rlog,
                   queueVars, usage, backend_ready, areq, asked, repoVars,
                   memory_lock, usage_lock, ucallVars, engineVars>>

\* generate: the two configuration checks fail
LockNotConfigured(t) ==
    /\ apc[t] = "generate"
    /\ ~backend_ready
    /\ Return(t, ErrorResponse(areq[t].id, "not configured"))
    /\ UNCHANGED <<clock, memVars, rateVars, queueVars, usage, backend_ready,
                   set_persona, areq, asked, repoVars, lockVars, ucallVars,
                   engineVars>>

\* generate: get_conversation, read_memory under _memory_lock, and the
\* messages.  A read_memory that raises here is outside the try block of
\* generate, so the exception leaves ask.
LockGetRead(t, lf) ==
    /\ apc[t] = "get_read"
    /\ memory_lock' = AfterRead(memory_lock)
    /\ IF LoadRaises(memory_valid, lf)
       THEN Return(t, ErrorResponse(areq[t].id, "internal"))
       ELSE /\ amsgs' = [amsgs EXCEPT ![t] =
                   BuildMessages(HistoryFor(areq[t].convo),
                                 areq[t].command)]
            /\ apc' = [apc EXCEPT ![t] = "call"]
            /\ UNCHANGED <<acontent, aresult, acall>>
    /\ UNCHANGED <<clock, memVars, rateVars, queueVars, usage, backend_ready,
                   set_persona, areq, asked, repoVars, usage_lock, rate_lock,
                   ucallVars, engineVars>>

\* append_message of generate: self._load() under _memory_lock, and the
\* mutation of the local data
LockAppendLoad(t, lf) ==
    /\ apc[t] \in {"user_load", "asst_load"}
    /\ memory_lock' = AfterRead(memory_lock)
    /\ IF LoadRaises(memory_valid, lf)
       THEN /\ Return(t, ErrorResponse(areq[t].id, "storage"))
            /\ UNCHANGED mdata
       ELSE /\ mdata' = [mdata EXCEPT ![t] =
                   IF apc[t] = "user_load"
                   THEN AppendMutate(read_memory, areq[t].convo, "user",
                                     areq[t].command, clock, max_history)
                   ELSE AppendMutate(read_memory, areq[t].convo, "assistant",
                                     acontent[t], clock, max_history)]
            /\ apc' = [apc EXCEPT ![t] = IF apc[t] = "user_load"
                                         THEN "user_save_lock"
                                         ELSE "asst_save_lock"]
            /\ UNCHANGED <<amsgs, acontent, aresult, acall>>
    /\ UNCHANGED <<clock, max_history, memory, issued, done, mpc, mop,
                   rateVars, queueVars, usage, backend_ready, set_persona,
                   areq, asked, repoVars, usage_lock, rate_lock, ucallVars,
                   engineVars>>

\* append_message of generate: self._save(data) under _memory_lock
LockAppendSave(t, sv) ==
    /\ apc[t] \in {"user_save", "asst_save"}
    /\ memory' = FileAfterWrite(memory, mdata[t], sv)
    /\ memory_valid' = ValidAfterWrite(sv)
    /\ memory_lock' = AfterWrite(memory_lock)
    /\ mdata' = [mdata EXCEPT ![t] = EmptyDict]
    /\ IF sv = "ok"
       THEN /\ apc' = [apc EXCEPT ![t] = IF apc[t] = "user_save"
                                         THEN "append_assistant"
                                         ELSE "usage"]
            /\ UNCHANGED <<amsgs, acontent, aresult, acall>>
       ELSE Return(t, ErrorResponse(areq[t].id, "storage"))
    /\ UNCHANGED <<clock, max_history, issued, done, mpc, mop, rateVars,
                   queueVars, usage, backend_ready, set_persona, areq, asked,
                   last, usage_lock, rate_lock, ucallVars, engineVars>>

\* generate: append_usage(usage_entry) under _usage_lock, and the return
LockUsageWrite(t, fails) ==
    /\ apc[t] = "usage_write"
    /\ LET usage_entry == [time |-> clock, convo |-> areq[t].convo,
                           model |-> "NEURA_MODEL",
                           prompt_len |-> PromptLen(amsgs[t]),
                           usage |-> "usage_info", req |-> areq[t].id]
       IN  usage' = append_usage(usage, usage_entry, fails)
    /\ usage_lock' = Free
    /\ Return(t, IF fails THEN ErrorResponse(areq[t].id, "usage")
                  ELSE AnswerResponse(areq[t].id, acontent[t]))
    /\ UNCHANGED <<clock, memVars, rateVars, queueVars, backend_ready,
                   set_persona, areq, asked, repoVars, memory_lock, rate_lock,
                   ucallVars, engineVars>>

\* task_wrapper: func() reaches with _usage_lock: of append_usage
LockWorkerAcquire ==
    /\ wpc = "func"
    /\ Take("usage", WorkerThread)
    /\ wpc' = "func_locked"
    /\ UNCHANGED <<clock, memVars, rateVars, WORKER_QUEUE, WORKER_RUNNING,
                   wtask, wwake, sched, started, finished, stopped, usage,
                   askVars, repoVars, ucallVars, engineVars>>

\* task_wrapper: append_usage under _usage_lock; then finally: task_done()
LockWorkerFunc ==
    /\ wpc = "func_locked"
    /\ finished' = Append(finished, [id |-> wtask.id, ok |-> ~wtask.fails])
    /\ usage' = append_usage(usage, [wtask.entry EXCEPT !.time = clock],
                             wtask.fails)
    /\ usage_lock' = Free
    /\ wtask' = NoTask
    /\ wpc' = IF wtask.fails THEN AfterFuncRaises ELSE "loop"
    /\ UNCHANGED <<clock, memVars, rateVars, WORKER_QUEUE, WORKER_RUNNING,
                   wwake, sched, started, stopped, askVars, repoVars,
                   memory_lock, rate_lock, ucallVars, engineVars>>

\* the steps of request thread t
LockSteps(t) ==
    \/ \E ip \in Clients, k \in Keys, x \in Texts : LockArrive(t, ip, k, x)
    \/ LockAcquire(t)
    \/ \E m \in QuietModes : LockRateCheck(t, m)
    \/ AskSchedule(t, FALSE)
    \/ LockNotConfigured(t)
    \/ \E lf \in BOOLEAN : LockGetRead(t, lf)
    \/ \E ok \in BOOLEAN : AskCall(t, ok)
    \/ \E lf \in BOOLEAN : LockAppendLoad(t, lf)
    \/ \E sv \in SaveOutcomes : LockAppendSave(t, sv)
    \/ \E f \in BOOLEAN : LockUsageWrite(t, f)

LockHandle == \E t \in Handlers : LockSteps(t)

\* the steps of worker_thread
LockWorker ==
    \/ WorkerLoop
    \/ WorkerGet
    \/ WorkerEmpty
    \/ WorkerSleep
    \/ LockWorkerAcquire
    \/ LockWorkerFunc

NextLocks == LockHandle \/ LockWorker

SpecLocks == InitAsk /\ [][NextLocks]_vars

----------------------------------------------------------------------------
(* Conversation Repository claims *)

Range(s) == {s[i] : i \in 1..Len(s)}

AllIdle == \A t \in Threads : mpc[t] = "idle"

\* what a history bounded by max_history keeps of the returned appends
Retained(k) == LastN(done[k], Min(Len(done[k]), max_history))

\* C1: after each append of a run of appends on one key, the stored history
\* is no longer than max_history and is exactly the last
\* min(n, max_history) appended messages, in appended order, for every
\* configured max_history.
C1_HistoryIsLastMaxHistory ==
    \A k \in DOMAIN memory :
        /\ Len(memory[k]) <= max_history
        /\ memory[k] = Retained(k)

\* C2: no lost updates: once every concurrent append_message and
\* clear_conversation has returned, every appended message that max_history
\* would retain is in the persisted state.
C2_NoLostUpdate ==
    AllIdle =>
        \A k \in Keys : Range(Retained(k)) \subseteq Range(DictGet(memory, k))

\* C3: the return of an append or clear on one key leaves the history of
\* every other key as it was, also when calls on several keys overlap.
C3_OtherKeysUnchanged ==
    [][\A t \in Threads :
          (mpc[t] = "save" /\ mpc'[t] = "idle") =>
              \A k \in Keys \ {mop[t].key} :
                  DictGet(memory', k) = DictGet(memory, k)]_vars

----------------------------------------------------------------------------
(* Conversation Repository claims: the single caller and the failures of    *)
(* the store                                                                *)

\* the last call returned, and the call before it was a clear_conversation
\* on key k that returned
AfterClear(k) ==
    /\ ~last.raised
    /\ last.prev.op = "clear"
    /\ last.prev.key = k
    /\ last.prev.out = "returned"

\* C22: once clear_conversation(k) has returned, for a known or an unknown
\* k and whatever the store held, k is among the keys and its conversation
\* is empty: the get_conversation(k) that follows returns the empty list and
\* the list_conversations that follows returns a list with k.
C22_ClearThenGetEmpty ==
    /\ (last.op = "clear" /\ ~last.raised) =>
           /\ get_conversation(last.key) = << >>
           /\ last.key \in list_conversations
    /\ (last.op = "get" /\ AfterClear(last.key)) =>
           /\ last.got = << >>
           /\ last.key \in list_conversations
    /\ (last.op = "list" /\ ~last.raised /\ last.prev.op = "clear"
           /\ last.prev.out = "returned") =>
           last.prev.key \in last.keys

\* a conversation with messages was cleared and then read
C22_Witness ==
    /\ last.op = "get"
    /\ AfterClear(last.key)
    /\ last.prev.had > 0

\* C23: a clear_conversation(k) that follows a clear_conversation(k) leaves
\* memory.json as the first one left it.
C23_ClearIdempotent ==
    (last.op = "clear" /\ AfterClear(last.key)) =>
        /\ memory = last.before
        /\ memory_valid = last.before_valid

\* a conversation with messages was cleared twice
C23_Witness ==
    /\ last.op = "clear"
    /\ AfterClear(last.key)
    /\ last.prev.had > 0

\* C24: get_conversation never raises; for a key that memory.json does not
\* hold it returns the empty list; and it leaves memory.json as it was: the
\* keys and every conversation are the same, an unknown key stays unknown.
C24_GetNeverFails ==
    last.op = "get" =>
        /\ ~last.raised
        /\ last.key \notin DOMAIN last.before => last.got = << >>
        /\ memory = last.before
        /\ memory_valid = last.before_valid

\* C25: an append_message that raises, because its load or its save failed,
\* leaves memory.json exactly as it was before the call.
C25_FailedAppendChangesNothing ==
    (last.op = "append" /\ last.raised) =>
        /\ memory = last.before
        /\ memory_valid = last.before_valid

----------------------------------------------------------------------------
(* Admission Controller claims *)

\* thread t returns from is_rate_limited in this step
RateReturns(t) == rpc[t] = "lock" /\ rpc'[t] = "idle"

\* the calls of client c admitted with a time in [t - RATE_WINDOW, t]
AdmittedIn(c, t) ==
    {i \in 1..Len(rlog[c]) :
        /\ ~rlog[c][i].limited
        /\ rlog[c][i].now >= t - RATE_WINDOW
        /\ rlog[c][i].now <= t}

C4_RateBound ==
    \A c \in Clients : \A t \in 0..MaxRateClock :
        Cardinality(AdmittedIn(c, t)) <= RATE_MAX

\* the first RATE_MAX calls of a client are admitted, and a further call at
\* the same instant is denied
C4_FirstCalls ==
    \A c \in Clients : \A i \in 1..Len(rlog[c]) :
        /\ i <= RATE_MAX => ~rlog[c][i].limited
        /\ (/\ i = RATE_MAX + 1
            /\ \A j \in 1..i : rlog[c][j].now = rlog[c][1].now)
               => rlog[c][i].limited

\* C4: for every client and instant t at most RATE_MAX calls are admitted
\* with a time in [t - RATE_WINDOW, t], under any interleaving; the first
\* three calls in a window are admitted and a fourth immediate one denied.
C4_AdmissionBound == C4_RateBound /\ C4_FirstCalls

\* C5: a denied call leaves the whole rate store as it was.
C5_DeniedLeavesStore ==
    [][\A t \in Threads :
          (RateReturns(t) /\ rres'[t]) => rate_store' = rate_store]_vars

\* a call was denied while the client's window was full
C5_Witness ==
    \E t \in Threads :
        /\ rpc[t] = "idle"
        /\ rres[t]
        /\ Len(DictGet(rate_store, rip[t])) = RATE_MAX

RECURSIVE Replay(_, _)
\* the results of calls at the times nows, made one after the other on a
\* limiter that starts with the window arr and serves nobody else
Replay(arr, nows) ==
    IF nows = << >> THEN << >>
    ELSE <<Limited(arr, Head(nows))>>
             \o Replay(WindowAfter(arr, Head(nows)), Tail(nows))

C6_ResultsFromOwnCalls ==
    \A c \in Clients :
        [i \in 1..Len(rlog[c]) |-> rlog[c][i].limited]
            = Replay(<< >>, [i \in 1..Len(rlog[c]) |-> rlog[c][i].now])

C6_OthersWindowUnchanged ==
    \A t \in Threads :
        RateReturns(t) =>
            \A c \in Clients \ {rip[t]} :
                DictGet(rate_store', c) = DictGet(rate_store, c)

\* C6: a call for one client never changes another client's window, and
\* the results of a client's calls are those of the same calls made on a
\* limiter that serves this client alone.
C6_ClientIndependence ==
    []C6_ResultsFromOwnCalls /\ [][C6_OthersWindowUnchanged]_vars

\* one client is denied and another is admitted at the same instant
C6_Witness ==
    \E a \in Clients : \E b \in Clients \ {a} :
        \E i \in 1..Len(rlog[a]) : \E j \in 1..Len(rlog[b]) :
            /\ rlog[a][i].limited
            /\ ~rlog[b][j].limited
            /\ rlog[b][j].now = rlog[a][i].now

\* C7: a call made when every recorded timestamp of the client is older
\* than the window is admitted, whatever was denied before.
C7_AdmittedAfterWindow ==
    [][\A t \in Threads :
          (/\ RateReturns(t)
           /\ \A i \in 1..Len(DictGet(rate_store, rip[t])) :
                  DictGet(rate_store, rip[t])[i] < rnow[t] - RATE_WINDOW)
              => ~rres'[t]]_vars

\* a client was denied, waited past the window and was admitted again
C7_Witness ==
    \E c \in Clients : \E i \in 1..Len(rlog[c]) :
        /\ i > 1
        /\ rlog[c][i - 1].limited
        /\ ~rlog[c][i].limited
        /\ \A j \in 1..(i - 1) : rlog[c][j].now < rlog[c][i].now - RATE_WINDOW

----------------------------------------------------------------------------
(* Task Queue claims *)

\* C8: tasks are executed strictly in the order schedule_task enqueued
\* them, one at a time: a task begins only after every task enqueued
\* before it has begun and finished, whatever the delays and producers.
C8_FifoExecution ==
    /\ \A i \in 1..Len(started) : started[i] = sched[i].id
    /\ \A i \in 1..Len(finished) : finished[i].id = started[i]
    /\ Len(started) - Len(finished) = (IF wtask = NoTask THEN 0 ELSE 1)

\* a delayed task and a task without delay that was enqueued after it and
\* before the delayed one began have both been executed
C8_Witness ==
    /\ Len(finished) >= 2
    /\ sched[1].delay > 0
    /\ sched[2].delay = 0

\* the worker ends its current task with a failure in this step
TaskFails == Len(finished') = Len(finished) + 1
                /\ ~finished'[Len(finished')].ok

\* C9: a task that raises does not terminate the worker and leaves the
\* tasks enqueued after it in the queue: the worker goes on to the next
\* iteration, and it exits only when the stop signal is set.
C9_FailureIsolated ==
    /\ [](wpc = "exited" => ~WORKER_RUNNING)
    /\ [][TaskFails => (wpc' = "loop" /\ WORKER_QUEUE' = WORKER_QUEUE)]_vars

\* after a task that raised, a task enqueued later ran to its end
C9_Witness ==
    \E i \in 1..Len(finished) : \E j \in 1..Len(finished) :
        /\ i < j
        /\ ~finished[i].ok
        /\ finished[j].ok

\* C10: every enqueued task is executed at most once, also when it failed.
C10_AtMostOnce ==
    /\ \A i \in 1..Len(started) : \A j \in 1..Len(started) :
           started[i] = started[j] => i = j
    /\ \A i \in 1..Len(started) : \E k \in 1..Len(sched) :
           started[i] = sched[k].id
    /\ \A i \in 1..Len(WORKER_QUEUE) : \A j \in 1..Len(started) :
           WORKER_QUEUE[i].id # started[j]

\* a task failed and the worker has since taken up the next one, while
\* nothing is left in the queue
C10_Witness ==
    /\ Len(finished) >= 1
    /\ ~finished[1].ok
    /\ Len(started) >= 2
    /\ WORKER_QUEUE = << >>

\* the worker's call of task i has ended
Executed(i) == \E j \in 1..Len(finished) : finished[j].id = i

\* C11: as long as the stop flag is not set, every task that schedule_task
\* has enqueued is eventually executed by the worker (every task of the
\* model terminates: its sleep ends and its func returns or raises).
C11_EveryTaskExecuted ==
    \A i \in 1..MaxTasks : (Len(sched) >= i) ~> Executed(i)

\* with the flag never set, every task was executed, among them a delayed
\* one that was enqueued behind another task
C11_Witness ==
    /\ WORKER_RUNNING
    /\ Len(sched) >= 3
    /\ \A i \in 1..Len(sched) : Executed(i)
    /\ \E i \in 2..Len(sched) : sched[i].delay > 0

\* C12: once the stop flag is set the worker begins no task: the tasks it
\* has begun are those it had begun when the flag was set.
C12_NoTaskAfterStop ==
    ~WORKER_RUNNING => Len(started) = stopped.begun

\* What holds of the shutdown: the worker halts at its next test of the
\* flag.  A worker that was executing a task when the flag was set, or was
\* about to test the flag, begins no further task; a worker that had passed
\* the test and was waiting in get begins at most one task, the one this
\* get returns.  An exited worker stays exited.
HaltsAtNextTest ==
    /\ [](~WORKER_RUNNING =>
            /\ Len(started) <= stopped.begun + 1
            /\ stopped.pc \in {"loop", "sleep", "func", "exited"}
                   => Len(started) = stopped.begun
            /\ wpc = "get" => stopped.pc = "get")
    /\ [][wpc = "exited" => wpc' = "exited"]_vars
    /\ [][(~WORKER_RUNNING /\ wpc = "loop") => wpc' \in {"loop", "exited"}]_vars


-----------------------------------------------------------------------------
(* Session Orchestrator claims *)

\* thread t takes in a new request in this step
Arrives(t) == asked' = asked + 1 /\ areq'[t].id = asked'

\* the request that arrives at thread t is turned away by the rate limit
Denied(t) == Limited(DictGet(rate_store, StoreKey(areq'[t].ip)), clock)

\* the request thread t has been serving returns in this step
Returns(t) == apc[t] # "idle" /\ apc'[t] = "idle"

\* the last mh messages of s
Trimmed(s, mh) == LastN(s, Min(Len(s), mh))

\* C13: a request on conversation c with a command, whose backend call
\* succeeds and which has c to itself from its arrival to its return,
\* returns its answer with the history of c being the history at its arrival
\* followed by the user message and the reply, trimmed to max_history.
C13_SuccessUpdatesHistory ==
    [][\A t \in Handlers :
          (Returns(t) /\ aresult'[t].status = 200 /\ acall[t].alone) =>
              DictGet(memory', areq[t].convo) =
                  Trimmed(acall[t].prior
                          \o <<[role |-> "user", content |-> areq[t].command,
                                ts |-> clock],
                               [role |-> "assistant", content |-> acontent[t],
                                ts |-> clock]>>,
                          max_history)]_vars

\* the usage entries and the scheduled usage writes of request i
EntriesOf(i) == {j \in 1..Len(usage) : usage[j].req = i}
TasksOf(i) == {j \in 1..Len(sched) : sched[j].entry.req = i}

\* every scheduled task has been executed
Drained == WORKER_QUEUE = << >> /\ wtask = NoTask

\* C14: once the queue has drained, a request on conversation c that
\* returned its answer has exactly one entry in usage.json; the entry
\* carries c and is the one that was enqueued through schedule_task.
C14_OneQueuedEntryPerSuccess ==
    \A t \in Handlers :
        (apc[t] = "idle" /\ aresult[t].status = 200 /\ Drained) =>
            /\ Cardinality(EntriesOf(aresult[t].id)) = 1
            /\ Cardinality(TasksOf(aresult[t].id)) = 1
            /\ \A j \in EntriesOf(aresult[t].id) :
                   /\ usage[j].convo = areq[t].convo
                   /\ \E k \in TasksOf(aresult[t].id) :
                          usage[j] = sched[k].entry

\* C15: a request that was turned away before the backend call, or whose
\* backend call failed, has no scheduled usage write and no entry in
\* usage.json.
C15_NoUsageWithoutSuccess ==
    \A t \in Handlers :
        (/\ apc[t] = "idle"
         /\ \/ aresult[t].status \in {429, 400}
            \/ aresult[t] = ErrorResponse(areq[t].id, "backend")
            \/ aresult[t] = ErrorResponse(areq[t].id, "not configured")) =>
            /\ TasksOf(aresult[t].id) = {}
            /\ EntriesOf(aresult[t].id) = {}

\* C16: a request whose backend call fails returns the error response with
\* the message of the backend, and none of its steps, up to and including
\* the failed call, writes memory.json: every conversation is as the other
\* requests left it.
C16_BackendFailureKeepsHistory ==
    /\ [][\A t \in Handlers :
             (apc[t] = "call" /\ Returns(t)) =>
                 aresult'[t] = ErrorResponse(areq[t].id, "backend")]_vars
    /\ [][\A t \in Handlers :
             (apc[t] \in {"schedule", "generate", "call"}
              /\ apc'[t] # apc[t]) => memory' = memory]_vars
    /\ [][\A t \in Handlers :
             (Arrives(t) /\ apc'[t] # "idle") => memory' = memory]_vars

\* a backend call failed for a conversation that has a history, and the
\* history is still there
C16_Witness ==
    \E t \in Handlers :
        /\ apc[t] = "idle"
        /\ aresult[t] = ErrorResponse(areq[t].id, "backend")
        /\ Len(DictGet(memory, areq[t].convo)) = 2

\* C17: a request that passes the rate limit and has an empty command
\* returns the "no command provided" response in the step in which it
\* arrived, so that it never reaches the backend call, and leaves
\* memory.json, usage.json and the task queue as they were.
C17_EmptyIsInvalid ==
    [][\A t \in Handlers :
          (Arrives(t) /\ ~Denied(t) /\ areq'[t].command = EmptyText) =>
              /\ apc'[t] = "idle"
              /\ aresult'[t] = InvalidResponse(asked')
              /\ UNCHANGED <<memory, usage, WORKER_QUEUE, sched>>]_vars

\* an empty request was turned away while there is a history, a usage entry
\* and a task in the queue
C17_Witness ==
    \E t \in Handlers :
        /\ apc[t] = "idle"
        /\ aresult[t] = InvalidResponse(asked)
        /\ memory # EmptyDict
        /\ usage # << >>
        /\ WORKER_QUEUE # << >>

\* C18: a request that the rate limit turns away returns the "rate_limited"
\* response in the step in which it arrived, whatever its command,
\* conversation and mode: the backend is not called, no task is enqueued,
\* and memory.json and usage.json are as they were.
C18_DeniedHasNoEffect ==
    [][\A t \in Handlers :
          (Arrives(t) /\ Denied(t)) =>
              /\ apc'[t] = "idle"
              /\ aresult'[t] = RateLimitedResponse(asked')
              /\ UNCHANGED <<memory, usage, WORKER_QUEUE, sched, set_persona>>]_vars

\* a request with a command was turned away by the rate limit while there
\* is a history and a usage entry
C18_Witness ==
    \E t \in Handlers :
        /\ apc[t] = "idle"
        /\ aresult[t] = RateLimitedResponse(asked)
        /\ areq[t].command # EmptyText
        /\ memory # EmptyDict
        /\ usage # << >>

\* C19: when the backend call has succeeded and the append_usage of
\* generate fails, the request still returns the generated answer.
C19_UsageFailureStillAnswers ==
    [][\A t \in Handlers :
          (apc[t] = "usage" /\ Returns(t)) =>
              aresult'[t] = AnswerResponse(areq[t].id, acontent[t])]_vars

\* C20: when the backend call has succeeded and one of the two
\* append_message calls of generate fails, the request still returns the
\* generated reply.
C20_AppendFailureStillAnswers ==
    [][\A t \in Handlers :
          (apc[t] \in {"append_user", "append_assistant"} /\ Returns(t)) =>
              aresult'[t].answer = acontent[t]]_vars

\* conversation c holds a message of the given role and content
Holds(c, role, content) ==
    \E j \in 1..Len(DictGet(memory, c)) :
        /\ DictGet(memory, c)[j].role = role
        /\ DictGet(memory, c)[j].content = content

\* C21: when one of the two append_message calls of generate fails, the
\* conversation is not updated: at the return of the request the history
\* does not hold the user message of the request without its reply.
C21_AppendsAllOrNothing ==
    [][\A t \in Handlers :
          (apc[t] \in {"append_user", "append_assistant"} /\ Returns(t)) =>
              ~(/\ Holds(areq[t].convo, "user", areq[t].command)
                /\ ~Holds(areq[t].convo, "assistant", acontent[t]))]_vars

\* every request that has arrived so far addresses conversation k
OnlyOn(k) ==
    /\ DOMAIN memory \subseteq {k}
    /\ \A t \in Handlers : apc[t] # "idle" => areq[t].convo = k

\* C28: when the concurrent requests all address one conversation, every
\* reply in its history has the user message of the same request somewhere
\* before it, unless the history is full, in which case the user message may
\* have been evicted by the max_history bound.
C28_UserBeforeReply ==
    \A k \in Keys :
        OnlyOn(k) =>
            \A j \in 1..Len(DictGet(memory, k)) :
                DictGet(memory, k)[j].role = "assistant" =>
                    \/ Len(DictGet(memory, k)) >= max_history
                    \/ \E i \in 1..(j - 1) :
                          /\ DictGet(memory, k)[i].role = "user"
                          /\ DictGet(memory, k)[i].content
                                 = DictGet(memory, k)[j].content - 1

----------------------------------------------------------------------------
(* Usage Recorder claims *)

\* s is an initial part of t
IsPrefix(s, t) == Len(s) <= Len(t) /\ SubSeq(t, 1, Len(s)) = s

\* C26: usage.json is append-only: every step leaves the log it held as an
\* initial part of the log it holds afterwards, also the steps of an
\* append_usage whose load of the file fails.
C26_AppendOnly == [][IsPrefix(usage, usage')]_vars

\* every append_usage call has returned, and in each of them the load and
\* the save succeeded
AllRecorded ==
    /\ \A t \in Threads : upc[t] = "idle"
    /\ \A i \in 1..Len(urec) : ~urec[i].raised /\ ~urec[i].reset

\* C27: when the append_usage calls of several threads have all returned,
\* and the load and the save of each succeeded, usage.json holds the entry
\* of every call exactly once; and _usage_lock is held from before the
\* load to the end of the save.
C27_NoLostUsage ==
    /\ AllRecorded =>
           /\ Len(usage) = Len(urec)
           /\ \A i \in 1..Len(urec) :
                  Cardinality({j \in 1..Len(usage) :
                                  usage[j].req = urec[i].req}) = 1
    /\ \A t \in Threads : upc[t] \in {"read", "write"} <=> usage_lock = t

\* three calls were recorded, two of which began while another thread held
\* the lock
C27_Witness ==
    /\ AllRecorded
    /\ Len(urec) = MaxUsageCalls
    /\ Cardinality({i \in 1..Len(urec) : urec[i].contended}) >= 2

----------------------------------------------------------------------------
(* Lock discipline claims *)

LockNames == {"memory", "usage", "rate"}

\* the locks thread h holds
HeldBy(h) == {l \in LockNames : HolderOf(l) = h}

\* C29: a request thread that is in the backend call holds none of
\* _memory_lock, _usage_lock and _rate_lock, so that no other request and
\* not the worker can be waiting for it.
C29_NoLockDuringBackendCall ==
    \A t \in Handlers : apc[t] = "call" => HeldBy(t) = {}

\* while one request is in the backend call, the other request holds
\* _memory_lock and the worker holds _usage_lock
C29_Witness ==
    \E t \in Handlers : \E u \in Handlers \ {t} :
        /\ apc[t] = "call"
        /\ memory_lock = u
        /\ usage_lock = WorkerThread

\* the steps of thread h, a request thread or the worker
StepsOf(h) == IF h = WorkerThread THEN LockWorker ELSE LockSteps(h)

\* C30: no thread, request thread or worker, holds two of the three locks
\* at a time, and the holder of a lock always has a step to take: it is
\* inside the with block and not waiting for another lock.  So a thread
\* that waits for a lock is never waiting in a cycle, and no state is a
\* deadlock.
C30_NoDeadlock ==
    /\ \A h \in Handlers \cup {WorkerThread} : Cardinality(HeldBy(h)) <= 1
    /\ \A l \in LockNames :
           HolderOf(l) # Free =>
               /\ HolderOf(l) \in Handlers \cup {WorkerThread}
               /\ ENABLED StepsOf(HolderOf(l))
    /\ \A t \in Handlers :
           (apc[t] \in DOMAIN Wants /\ HolderOf(Wants[apc[t]]) # Free) =>
               HolderOf(Wants[apc[t]]) # t

\* the three locks are held by three threads while nobody holds two
C30_Witness ==
    /\ rate_lock \in Handlers
    /\ memory_lock \in Handlers
    /\ usage_lock = WorkerThread

-----------------------------------------------------------------------------
(* Request life cycle claims *)

\* Where the request of thread t stands.  Admitted: past the rate limit and
\* the "if not command" test, before the backend call.  Dispatched: from the
\* call of openai.ChatCompletion.create to the return of generate.
\* Rejected: answered 429 or 400; Completed: answered 200; Failed: answered
\* 500.
ReqState(t) ==
    IF areq[t] = NoReq THEN "None"
    ELSE IF apc[t] = "idle"
         THEN IF aresult[t].status = 200 THEN "Completed"
              ELSE IF aresult[t].status = 500 THEN "Failed"
              ELSE "Rejected"
    ELSE IF apc[t] \in {"schedule", "generate"} THEN "Admitted"
    ELSE "Dispatched"

\* the same one step later
ReqStateNext(t) ==
    IF areq'[t] = NoReq THEN "None"
    ELSE IF apc'[t] = "idle"
         THEN IF aresult'[t].status = 200 THEN "Completed"
              ELSE IF aresult'[t].status = 500 THEN "Failed"
              ELSE "Rejected"
    ELSE IF apc'[t] \in {"schedule", "generate"} THEN "Admitted"
    ELSE "Dispatched"

\* a step in which every request moves only along the pairs of moves: it arrives as Admitted or
\* Rejected, is Admitted only past the rate limit and with a command, and
\* from then on changes its state only by one of the moves
MovesAlong(moves) ==
    \A t \in Handlers :
          /\ Arrives(t) =>
                 /\ ReqStateNext(t) \in {"Admitted", "Rejected"}
                 /\ ReqStateNext(t) = "Admitted" =>
                        ~Denied(t) /\ areq'[t].command # EmptyText
          /\ (~Arrives(t) /\ ReqStateNext(t) # ReqState(t)) =>
                 /\ areq'[t] = areq[t]
                 /\ <<ReqState(t), ReqStateNext(t)>> \in moves
          /\ ReqStateNext(t) = "Dispatched" =>
                 areq'[t].command # EmptyText

SpecMoves ==
    {<<"Admitted", "Dispatched">>, <<"Dispatched", "Completed">>,
     <<"Dispatched", "Failed">>}

\* C31 as stated: every request moves only along Received -> Admitted or
\* Rejected and Admitted -> Dispatched -> Completed or Failed; the backend
\* is called only for a request that passed the rate limit and has a
\* command; Rejected, Completed and Failed are final and no request moves
\* back.
C31_StateMachine == [][MovesAlong(SpecMoves)]_vars

\* C31, amended: the same with one more move, Admitted -> Failed, which a
\* request takes when generate finds the backend not configured and returns
\* its error without calling the backend.
C31_StateMachineWithConfigFailure ==
    [][MovesAlong(SpecMoves \cup {<<"Admitted", "Failed">>})]_vars

\* a request has failed on the configuration check of generate, and another
\* one has been admitted
C31_Witness ==
    \E t, u \in Handlers :
        /\ ReqState(t) = "Failed"
        /\ aresult[t] = ErrorResponse(areq[t].id, "not configured")
        /\ ReqState(u) = "Admitted"

-----------------------------------------------------------------------------
(* Payload claims *)

\* what is stored for the conversation of a call: nothing for a call
\* without a conversation
StoredHistory(convo_id) ==
    IF convo_id = NoConvo THEN << >> ELSE DictGet(memory, convo_id)

\* C32: the messages generate hands to the backend are the system prompt,
\* then the stored messages of the conversation in stored order, with their
\* role and content only, then the new user message; for a call without a
\* conversation they are the system prompt and the user message.
C32_PayloadAssembly ==
    [][\A t \in Handlers :
          (apc[t] = "generate" /\ apc'[t] = "call") =>
              LET h == StoredHistory(areq[t].convo)
                  m == amsgs'[t]
              IN  /\ Len(m) = Len(h) + 2
                  /\ m[1] = [role |-> "system", content |-> SystemPrompt]
                  /\ \A i \in 1..Len(h) :
                         m[i + 1] = [role |-> h[i].role,
                                     content |-> h[i].content]
                  /\ m[Len(m)] = [role |-> "user",
                                  content |-> areq[t].command]
                  /\ areq[t].convo = NoConvo =>
                         m = <<[role |-> "system", content |-> SystemPrompt],
                               [role |-> "user",
                                content |-> areq[t].command]>>]_vars

\* the backend is being called with a history of two messages between the
\* system prompt and the user message, after a call without a conversation
\* was answered while there was a history
C32_Witness ==
    \E t \in Handlers :
        /\ apc[t] = "call"
        /\ areq[t].convo \in Keys
        /\ Len(amsgs[t]) = 4
        /\ \E j \in 1..Len(usage) :
               usage[j].convo = NoConvo /\ usage[j].req > 1

\* the suffix of a mode and the safety clause
ModeSuffix(mode) ==
    IF mode \in {"business", "creative", "debug"} THEN <<mode>> ELSE << >>
SafetyClause == IF safe_mode THEN <<"safety">> ELSE << >>

\* C33: the system prompt sent to the backend for a request is the base
\* persona, then the suffix of the mode of that request (none for default
\* and for a mode that is not known), then the safety clause when safe mode
\* is on, whatever the modes of the other requests.
C33_ModeResolution ==
    \A t \in Handlers :
        amsgs[t] # << >> =>
            PromptText(amsgs[t][1].content)
                = <<"base">> \o ModeSuffix(areq[t].mode) \o SafetyClause

-----------------------------------------------------------------------------
(* Claims on the generate of bot_engine.py *)

\* thread t is inside the with block of generate
Guarded(t) ==
    apc[t] \in {"generate", "call", "append_user", "save_user",
                "append_assistant", "save_assistant", "usage"}

\* C34: the lock taken at the start of the generate of bot_engine.py keeps
\* two calls from being inside the guarded region (reading the history,
\* calling the backend, appending the two messages, recording the usage) at
\* the same time.
C34_GenerateMutualExclusion ==
    \A t, u \in Handlers :
        (t # u /\ Guarded(t)) => ~Guarded(u)

-----------------------------------------------------------------------------
(* Claims on the keys and the timestamps of the stored conversations *)

\* C35: a key that list_conversations returns is returned by it in every
\* later state, whatever append_message and clear_conversation calls the
\* threads run and however they interleave.
C35_KeysNeverLost ==
    [][\A k \in Keys :
          k \in list_conversations => k \in list_conversations']_vars

-----------------------------------------------------------------------------
(* Admission before validation *)

\* the timestamps of client ip that lie inside the window that ends now
InWindow(ip) ==
    LET arr == DictGet(rate_store, StoreKey(ip))
    IN  {i \in 1..Len(arr) : arr[i] > clock - RATE_WINDOW}

\* C36: a request without a command that passes the rate limit has its
\* time recorded in the window of its client before it is answered "no
\* command provided"; so a request with a command that arrives when RATE_MAX
\* such times lie inside the window is answered "rate_limited".
C36_AdmissionBeforeValidation ==
    /\ [][\A t \in Handlers :
             (Arrives(t) /\ ~Denied(t) /\ areq'[t].command = EmptyText) =>
                 /\ aresult'[t] = InvalidResponse(asked')
                 /\ DictGet(rate_store', StoreKey(areq'[t].ip)) =
                        Append(Prune(DictGet(rate_store,
                                             StoreKey(areq'[t].ip)), clock),
                               clock)]_vars
    /\ [][\A t \in Handlers :
             (/\ Arrives(t)
              /\ areq'[t].command # EmptyText
              /\ Cardinality(InWindow(areq'[t].ip)) >= RATE_MAX) =>
                 aresult'[t] = RateLimitedResponse(asked')]_vars

\* a request with a command has been answered "rate_limited" although no
\* request has been served since the server started: the RATE_MAX times in
\* the window of its client are those of requests without a command
C36_Witness ==
    \E t \in Handlers :
        /\ apc[t] = "idle"
        /\ aresult[t] = RateLimitedResponse(asked)
        /\ areq[t].command # EmptyText
        /\ sched = << >>
        /\ Cardinality(InWindow(areq[t].ip)) = RATE_MAX

====
